---- MODULE Spec2Model ----
(***************************************************************************)
(* A model of the sandpack bundler engine: subgraph addressing, the        *)
(* transformation queue, Module.compile / resetCompilation / evaluate,     *)
(* Evaluation.getExports / require, and Bundler.transformModule,           *)
(* moduleFinishedPromise and compile.                                      *)
(*                                                                         *)
(* Strings are sequences of tokens: a module id such as                    *)
(* "(client)/a.js" is <<"(", "client", ")", "/a.js">>.  A step of an async *)
(* function runs from one await on I/O (a file read, a transformer call, a *)
(* resolution, a queue promise) to the next; continuations that only wait  *)
(* for a microtask are fused with the step before them.                    *)
(***************************************************************************)
EXTENDS Integers, Sequences, FiniteSets, TLC

(***************************************************************************)
(* subgraphs.ts                                                            *)
(***************************************************************************)
NO_SUBGRAPH == "undefined"

SUBGRAPH_VALUES == <<"client", "server">>

\* The value a throwing string function yields.
THROWN == <<"#throw">>

StartsWithParen(path) == Len(path) > 0 /\ path[1] = "("

\* String.prototype.indexOf, 1-based; 0 stands for -1.
IndexOf(path, tok) ==
  IF \E i \in 1..Len(path) : path[i] = tok
  THEN CHOOSE i \in 1..Len(path) : path[i] = tok /\ \A j \in 1..(i - 1) : path[j] # tok
  ELSE 0

toSubGraphPath(path, subgraphId) ==
  IF subgraphId = NO_SUBGRAPH THEN path
  ELSE IF StartsWithParen(path) THEN THROWN
  ELSE <<"(", subgraphId, ")">> \o path

\* path.slice(end) begins at the closing parenthesis.
unSubGraphPath(path, strict) ==
  IF ~StartsWithParen(path)
  THEN IF strict THEN THROWN ELSE path
  ELSE LET end == IndexOf(path, ")") IN
       IF end = 0 THEN THROWN
       ELSE SubSeq(path, end, Len(path))

ParseThrown == [ok |-> FALSE, resourcePath |-> <<>>, subgraphId |-> NO_SUBGRAPH]

\* parseSubgraphPath keeping the closing parenthesis in the resource path.
parseSubgraphPath_KeepsParen(path, strict) ==
  IF ~StartsWithParen(path)
  THEN IF strict THEN ParseThrown
       ELSE [ok |-> TRUE, resourcePath |-> path, subgraphId |-> NO_SUBGRAPH]
  ELSE LET end == IndexOf(path, ")") IN
       IF end = 0 THEN ParseThrown
       ELSE LET resourcePath == SubSeq(path, end, Len(path))
                parsedSubgraphId == SubSeq(path, 2, end - 1)
                hits == {i \in 1..Len(SUBGRAPH_VALUES) : <<SUBGRAPH_VALUES[i]>> = parsedSubgraphId}
            IN IF hits = {} THEN ParseThrown
               ELSE [ok |-> TRUE, resourcePath |-> resourcePath,
                     subgraphId |-> SUBGRAPH_VALUES[CHOOSE i \in hits : TRUE]]

\* parseSubgraphPath that in loose mode takes an id with a bad prefix for an
\* id without prefix.
parseSubgraphPath_LooseForgives(path, strict) ==
  IF ~StartsWithParen(path)
  THEN IF strict THEN ParseThrown
       ELSE [ok |-> TRUE, resourcePath |-> path, subgraphId |-> NO_SUBGRAPH]
  ELSE LET end == IndexOf(path, ")")
           bad == IF strict THEN ParseThrown
                  ELSE [ok |-> TRUE, resourcePath |-> path, subgraphId |-> NO_SUBGRAPH]
       IN
       IF end = 0 THEN bad
       ELSE LET resourcePath == SubSeq(path, end + 1, Len(path))
                parsedSubgraphId == SubSeq(path, 2, end - 1)
                hits == {i \in 1..Len(SUBGRAPH_VALUES) : <<SUBGRAPH_VALUES[i]>> = parsedSubgraphId}
            IN IF hits = {} THEN bad
               ELSE [ok |-> TRUE, resourcePath |-> resourcePath,
                     subgraphId |-> SUBGRAPH_VALUES[CHOOSE i \in hits : TRUE]]

parseSubgraphPath(path, strict) ==
  IF ~StartsWithParen(path)
  THEN IF strict THEN ParseThrown
       ELSE [ok |-> TRUE, resourcePath |-> path, subgraphId |-> NO_SUBGRAPH]
  ELSE LET end == IndexOf(path, ")") IN
       IF end = 0 THEN ParseThrown
       ELSE LET resourcePath == SubSeq(path, end + 1, Len(path))
                parsedSubgraphId == SubSeq(path, 2, end - 1)
                hits == {i \in 1..Len(SUBGRAPH_VALUES) : <<SUBGRAPH_VALUES[i]>> = parsedSubgraphId}
            IN IF hits = {} THEN ParseThrown
               ELSE [ok |-> TRUE, resourcePath |-> resourcePath,
                     subgraphId |-> SUBGRAPH_VALUES[CHOOSE i \in hits : TRUE]]

getOtherSubgraph(subgraphId) == IF subgraphId = "client" THEN "server" ELSE "client"

(***************************************************************************)
(* The world the bundler runs in: files, what the resolver finds, what the *)
(* transformers answer.                                                    *)
(***************************************************************************)
IndexJs == <<"/index.js">>
AJs == <<"/a.js">>
PackageJson == <<"/package.json">>
CoreJs == <<"/node_modules/core-js/index.js">>
RuntimePath == <<"/node_modules/__csb_runtimes/react-refresh-transformer.js">>
IndexClientJs == <<"/index.client.js">>
SrcIndexJs == <<"/src/index.js">>
LibAJs == <<"/node_modules/lib/a.js">>
LibBJs == <<"/node_modules/lib/b.js">>

NoFile == "#nofile"
NullCode == <<>>
NoError == "null"

\* The resolver (external): what a specifier names; an absolute path names itself.
SpecifierTarget(specifier) ==
  CASE specifier = <<"./a">> -> AJs
    [] specifier = <<"./index">> -> IndexJs
    [] specifier = <<"./index.js">> -> IndexJs
    [] specifier = <<"core-js">> -> CoreJs
    [] specifier = <<"./", "a">> -> AJs
    [] specifier = <<"./", "index">> -> IndexJs
    [] specifier = <<"./", "src/index">> -> SrcIndexJs
    [] specifier = <<"./", "index", ".", "client">> -> IndexClientJs
    [] specifier = <<"lib/a">> -> LibAJs
    [] specifier = <<"lib/b">> -> LibBJs
    [] OTHER -> specifier

ModulePaths == {IndexJs, AJs, CoreJs, RuntimePath, PackageJson}
FsPaths == ModulePaths \cup {PackageJson}
SubgraphTags == {NO_SUBGRAPH, "client", "server"}
\* The files of the package lib, which the module registry may hold.
LibPaths == {LibAJs, LibBJs}
Ids == {toSubGraphPath(p, s) : p \in ModulePaths \cup LibPaths, s \in SubgraphTags}

\* Preset.getTransformers over ReactPreset.mapTransformers: user scripts get two
\* transformers, scripts under /node_modules/ one, anything else throws.
getTransformers(filepath) ==
  IF filepath \in {IndexJs, AJs} THEN <<"babel-transformer", "react-refresh-transformer">>
  ELSE IF filepath \in {CoreJs, RuntimePath} \cup LibPaths THEN <<"babel-transformer">>
  ELSE THROWN

Op(op, arg) == [op |-> op, arg |-> arg]

\* eval.ts (external): what the compiled code of a source does when it is run.
\* The dynamic import of "dynA" and "dynNope" is a require() of a specifier no
\* transformer reported as a dependency.
CodeOps(content) ==
  CASE content = "cycA" -> <<Op("export", <<"early">>), Op("require", <<"./a">>),
                             Op("export", <<"late">>)>>
    [] content = "cycB" -> <<Op("require", <<"./index">>), Op("export", <<"b">>)>>
    [] content = "impA" -> <<Op("require", <<"./a">>), Op("export", <<"x">>)>>
    [] content = "dynA" -> <<Op("require", <<"./a">>), Op("export", <<"x">>)>>
    [] content = "dynNope" -> <<Op("require", <<"./nope">>), Op("export", <<"x">>)>>
    [] content = "throws" -> <<Op("throw", <<>>)>>
    [] content = "accept" -> <<Op("accept", <<>>), Op("export", <<"x">>)>>
    [] content = "accept2" -> <<Op("accept", <<>>), Op("export", <<"y">>)>>
    [] content = "hotImpA" -> <<Op("accept", <<>>), Op("require", <<"./a">>),
                                Op("export", <<"x">>)>>
    [] content = "invalidate" -> <<Op("invalidate", <<>>)>>
    [] content = "hotDynA" -> <<Op("accept", <<>>), Op("require", <<"./a">>),
                                Op("export", <<"x">>)>>
    [] OTHER -> <<Op("export", <<"x">>)>>

Ok(deps, fork) == [kind |-> "ok", deps |-> deps, fork |-> fork]

\* Transformer.transform (external): the answer to a source text.  kind is "ok"
\* (code, dependencies, isSubgraphFork), "error" (a BundlerError is returned) or
\* "throw".  Only a "use client" module compiled in the server subgraph forks.
TransformOutcome(tname, content, subgraphId) ==
  IF tname = "react-refresh-transformer" THEN Ok({}, FALSE)
  ELSE CASE content = "impA" -> Ok({<<"./a">>}, FALSE)
         [] content = "hotImpA" -> Ok({<<"./a">>}, FALSE)
         [] content = "cycA" -> Ok({<<"./a">>}, FALSE)
         [] content = "cycB" -> Ok({<<"./index">>}, FALSE)
         [] content = "impIndex" -> Ok({<<"./index">>}, FALSE)
         [] content = "impCore" -> Ok({<<"core-js">>}, FALSE)
         [] content = "impLibA" -> Ok({<<"lib/a">>}, FALSE)
         [] content = "impTwo" -> Ok({<<"./a">>, <<"./nope">>}, FALSE)
         [] content = "useClient" -> Ok({}, subgraphId = "server")
         [] content = "bad" -> [kind |-> "error", deps |-> {}, fork |-> FALSE]
         [] content = "boom" -> [kind |-> "throw", deps |-> {}, fork |-> FALSE]
         [] OTHER -> Ok({}, FALSE)

\* The dependency specifiers (d) of a precompiled file of the CDN.
CdnDeps(content) ==
  CASE content = "cdnReqA" -> {<<"lib/a">>}
    [] content = "cdnReqB" -> {<<"lib/b">>}
    [] content = "cdnReqBNope" -> {<<"lib/b">>, <<"lib/nope">>}
    [] content = "cdnNope" -> {<<"lib/nope">>}
    [] OTHER -> {}

CdnContents == {"cdnLeaf", "cdnReqA", "cdnReqB", "cdnReqBNope", "cdnNope"}

NoCdnFile == [c |-> NoFile, d |-> {}, t |-> FALSE]

(***************************************************************************)
(* State                                                                   *)
(***************************************************************************)
VARIABLES
  fs,                      \* FileSystem: path -> content, NoFile when absent
  modules,                 \* Bundler.modules: id -> Module
  promises,                \* NamedPromiseQueue: name -> "pending" | "resolved" | "rejected"
  waiting,                 \* NamedPromiseQueue: names waiting for a slot, FIFO
  running,                 \* NamedPromiseQueue: tasks started and not settled
  concurrency,             \* NamedPromiseQueue: the maximum of running
  shouldKeepResults,       \* NamedPromiseQueue: settled entries stay in the map
  task,                    \* the _transformModule execution of each id
  orphans,                 \* addDependency calls still running after their compile() failed
  waits,                   \* per awaiting caller: its await of transformModule / moduleFinishedPromise
  stack,                   \* the evaluations running, innermost last
  exc,                     \* the exception being thrown through the stack
  evalCaller,              \* who made the outermost evaluate() call
  dyn,                     \* the promise returned by require() for a dynamic import
  hasHMR,                  \* Bundler.hasHMR
  isResourceSubgraphFork,  \* Bundler.isResourceSubgraphFork: filepath -> fork record
  sharedPackages,          \* Bundler.sharedPackages
  sharedModulePaths,       \* Bundler.sharedModulePaths
  subgraphImportConditions,\* Bundler.subgraphImportConditions is set
  reloadRequested,         \* location.reload() has been called
  tmInvoked,               \* the calls of transformModule: <<caller, id>>
  joined,                  \* ids for which a call found the pending promise of another
  inflight,                \* per id: _transformModule executions begun and not settled
  compileCalls,            \* per id: calls of Module.compile()
  compileRuns,             \* per id: calls of Module.compile() that got past its guard
  compileReturns,          \* per id: returns of those
  trCalls,                 \* per id: transformer invocations
  lastMarked,              \* per id: markedAsSubgraphFork when compile() last returned
  forkHistory,             \* filepaths a fork record was ever set for
  evals,                   \* per id: Evaluations constructed
  execs,                   \* per id: executions of the module's code begun
  thrown,                  \* what the last outermost evaluate() threw
  seen,                    \* what require() returned: <<importer, target, status, exports>>
  envCalls,                \* calls made by the callers of the pipeline
  isFirstLoad,             \* Bundler.isFirstLoad
  parsedPackageJSON,       \* Bundler.parsedPackageJSON
  previousDepString,       \* Bundler._previousDepString
  pass,                    \* the execution of Bundler.compile, and what it found when it began
  thunk,                   \* the function Bundler.compile returned
  loads,                   \* calls of loadNodeModules
  entrySteps,              \* entry points resolved by Bundler.compile
  queued,                  \* NamedPromiseQueue: the names put on the waiting list, in order
  admitted                 \* NamedPromiseQueue: the names started from the waiting list, in order

\* The functions of subgraphs.ts applied to a string on their own.
VARIABLES
  pathIn,                  \* the string given
  sgIn,                    \* the subgraph id given
  pathOp,                  \* the calls made so far
  parsedOut,               \* what parseSubgraphPath returned last
  encodedOut,              \* what toSubGraphPath returned last
  strippedOut              \* what unSubGraphPath returned last

pathVars == <<pathIn, sgIn, pathOp, parsedOut, encodedOut, strippedOut>>

\* A Debouncer and the timers it sets.
VARIABLES
  now,                     \* the clock, in milliseconds
  timers,                  \* the timers set and not yet run or cleared
  calls,                   \* the time of each debounce() call; an action is named by its index
  runs,                    \* the actions invoked, with the time of each invocation
  cleared,                 \* the actions whose timer a later debounce() cleared
  compiling                \* the invoked actions whose bundler.compile() has not returned

debouncerVars == <<now, timers, calls, runs, cleared, compiling>>

\* A call of resolveEntryPoint.
VARIABLES
  entrySubgraph,           \* the subgraph id given last
  entryOut                 \* what resolveEntryPoint returned last

entryVars == <<entrySubgraph, entryOut>>

\* What no step of the bundler touches.
Aside == <<pathVars, debouncerVars, entryVars>>

BundlerVars == <<fs, modules, promises, waiting, running, concurrency, shouldKeepResults, task,
          orphans, waits, isResourceSubgraphFork, sharedPackages, sharedModulePaths,
          subgraphImportConditions, reloadRequested, tmInvoked, joined, inflight, compileCalls, compileRuns,
          compileReturns, trCalls, lastMarked, forkHistory, envCalls, stack, exc, evalCaller,
          dyn, hasHMR, evals, execs, thrown, seen, isFirstLoad, parsedPackageJSON,
          previousDepString, pass, thunk, loads, entrySteps,
          queued, admitted>>

vars == <<BundlerVars, Aside>>

\* What the handlers read and write, passed through nested calls.
Bundle ==
  [modules |-> modules, promises |-> promises, waiting |-> waiting, running |-> running,
   task |-> task, orphans |-> orphans, waits |-> waits, fork |-> isResourceSubgraphFork,
   reload |-> reloadRequested, tmInvoked |-> tmInvoked, joined |-> joined,
   inflight |-> inflight,
   compileCalls |-> compileCalls,
   compileRuns |-> compileRuns, compileReturns |-> compileReturns, trCalls |-> trCalls,
   lastMarked |-> lastMarked, forkHistory |-> forkHistory, stack |-> stack, exc |-> exc,
   evalCaller |-> evalCaller, dyn |-> dyn, hasHMR |-> hasHMR, evals |-> evals, execs |-> execs,
   thrown |-> thrown, seen |-> seen, isFirstLoad |-> isFirstLoad,
   parsedPackageJSON |-> parsedPackageJSON, previousDepString |-> previousDepString,
   pass |-> pass, thunk |-> thunk, loads |-> loads, entrySteps |-> entrySteps,
   queued |-> queued, admitted |-> admitted]

\* The bundle is computed once and its fields assigned.
Apply(B) ==
  \E R \in {B} :
    /\ modules' = R.modules
    /\ promises' = R.promises
    /\ waiting' = R.waiting
    /\ running' = R.running
    /\ task' = R.task
    /\ orphans' = R.orphans
    /\ waits' = R.waits
    /\ isResourceSubgraphFork' = R.fork
    /\ reloadRequested' = R.reload
    /\ tmInvoked' = R.tmInvoked
    /\ joined' = R.joined
    /\ inflight' = R.inflight
    /\ compileCalls' = R.compileCalls
    /\ compileRuns' = R.compileRuns
    /\ compileReturns' = R.compileReturns
    /\ trCalls' = R.trCalls
    /\ lastMarked' = R.lastMarked
    /\ forkHistory' = R.forkHistory
    /\ stack' = R.stack
    /\ exc' = R.exc
    /\ evalCaller' = R.evalCaller
    /\ dyn' = R.dyn
    /\ hasHMR' = R.hasHMR
    /\ evals' = R.evals
    /\ execs' = R.execs
    /\ thrown' = R.thrown
    /\ seen' = R.seen
    /\ isFirstLoad' = R.isFirstLoad
    /\ parsedPackageJSON' = R.parsedPackageJSON
    /\ previousDepString' = R.previousDepString
    /\ pass' = R.pass
    /\ thunk' = R.thunk
    /\ loads' = R.loads
    /\ entrySteps' = R.entrySteps
    /\ queued' = R.queued
    /\ admitted' = R.admitted

\* await, failed, deps and depMap belong to _tryCreatePrecompiledModule: the ids
\* whose transformModule promise it awaits, whether its Promise.all has rejected,
\* and the dependencies of the module it has made and not yet returned.
Idle == [pc |-> "idle", content |-> NoFile, ti |-> 0, code |-> <<>>, marked |-> FALSE,
         pend |-> {}, fanDone |-> {}, await |-> {}, failed |-> FALSE,
         transpiled |-> FALSE, deps |-> {}, depMap |-> {}]

NoEvaluation == [status |-> "none", exports |-> {}, error |-> NoError, gen |-> 0]
NewHot == [hmrConfig |-> FALSE, isHot |-> FALSE, dirty |-> FALSE, invalidated |-> FALSE]

\* new Module(id, filepath, source, isCompiled, bundler, subgraphId)
NewModule(filepath, source, isCompiled, subgraphId) ==
  [filepath |-> filepath, subgraphId |-> subgraphId, source |-> source,
   compiled |-> IF isCompiled THEN <<source>> ELSE NullCode,
   compilationError |-> NoError, dependencies |-> {}, dependencyMap |-> {},
   isEntry |-> FALSE, hot |-> NewHot, evaluation |-> NoEvaluation, disposeCalls |-> 0]

hasSubgraphs == subgraphImportConditions

\* ModuleRegistry.getPath(path).file.cdn where it is an object (c, d, t), and
\* NoCdnFile otherwise.  The CDN layer of the filesystem serves the c of the
\* registry's files, so the registry is read off fs.
getPath(path) ==
  IF path \in LibPaths /\ path \in DOMAIN fs /\ fs[path] \in CdnContents
  THEN [c |-> fs[path], d |-> CdnDeps(fs[path]), t |-> TRUE]
  ELSE NoCdnFile

(***************************************************************************)
(* Bundler.resolveAsync, the subgraph fork records                         *)
(***************************************************************************)
\* The resolver on a specifier without its subgraph tag: the file it names, if there.
Resolver(specifier) ==
  LET t == SpecifierTarget(specifier) IN
  IF t \in DOMAIN fs /\ fs[t] # NoFile THEN t ELSE THROWN

\* resolveAsync that tags every resolved path.
resolveAsync_AlwaysTags(rawSpecifier, subgraphId) ==
  LET parsed == parseSubgraphPath(rawSpecifier, FALSE) IN
  IF ~parsed.ok THEN THROWN
  ELSE LET sg == IF rawSpecifier \in sharedPackages THEN NO_SUBGRAPH ELSE subgraphId
           resolved == Resolver(parsed.resourcePath)
       IN IF resolved = THROWN THEN THROWN ELSE toSubGraphPath(resolved, sg)

resolveAsync(rawSpecifier, subgraphId) ==
  LET parsed == parseSubgraphPath(rawSpecifier, FALSE) IN
  IF ~parsed.ok THEN THROWN
  ELSE LET sg == IF rawSpecifier \in sharedPackages THEN NO_SUBGRAPH ELSE subgraphId
           resolved == Resolver(parsed.resourcePath)
       IN IF resolved = THROWN THEN THROWN
          ELSE IF resolved \in sharedModulePaths THEN resolved
          ELSE toSubGraphPath(resolved, sg)

getModuleConterpartInfo(m) ==
  [subgraphId |-> getOtherSubgraph(m.subgraphId),
   moduleId |-> toSubGraphPath(m.filepath, getOtherSubgraph(m.subgraphId))]

NoFork == [source |-> [subgraphId |-> NO_SUBGRAPH, moduleId |-> <<>>],
           target |-> [subgraphId |-> NO_SUBGRAPH, moduleId |-> <<>>]]

\* Map.get on isResourceSubgraphFork; NoFork stands for undefined.
ForkOf(forks, filepath) == IF filepath \in DOMAIN forks THEN forks[filepath] ELSE NoFork

getSubgraphFork(B, m) == ForkOf(B.fork, m.filepath)

setSubgraphFork(B, m, value) ==
  [B EXCEPT !.fork = (m.filepath :> value) @@ @,
            !.forkHistory = @ \cup {m.filepath}]

clearSubgraphFork(B, m) ==
  [B EXCEPT !.fork = [p \in (DOMAIN @) \ {m.filepath} |-> @[p]]]

(***************************************************************************)
(* NamedPromiseQueue                                                       *)
(***************************************************************************)
StartTask(B, name) ==
  [B EXCEPT !.running = @ + 1, !.inflight[name] = @ + 1,
            !.task[name] = [Idle EXCEPT !.pc = "start"]]

\* addEntry that starts every task at once.
addEntry_Unbounded(B, name) ==
  IF name \in DOMAIN B.promises THEN B
  ELSE StartTask([B EXCEPT !.promises = (name :> "pending") @@ @], name)

addEntry(B, name) ==
  IF name \in DOMAIN B.promises THEN B
  ELSE LET B1 == [B EXCEPT !.promises = (name :> "pending") @@ @] IN
       IF B1.running < concurrency THEN StartTask(B1, name)
       ELSE [B1 EXCEPT !.waiting = Append(@, name), !.queued = Append(@, name)]

getItem(B, name) == name \in DOMAIN B.promises

(***************************************************************************)
(* Bundler.moduleFinishedPromise                                           *)
(***************************************************************************)
\* The elements of a set in some fixed order.
RECURSIVE SeqOfSet(_)
SeqOfSet(S) == IF S = {} THEN <<>> ELSE LET x == CHOOSE y \in S : TRUE
                                        IN <<x>> \o SeqOfSet(S \ {x})

\* root is the id a caller gave moduleFinishedPromise, where that is kept;
\* error is what the awaited call threw.
NotWaiting == [status |-> "idle", awaiting |-> <<>>, todo |-> <<>>, visited |-> {},
               root |-> <<>>, error |-> NoError]

\* An awaited call threw error.
Failed(error, visited) ==
  [NotWaiting EXCEPT !.status = "failed", !.visited = visited, !.error = error]

\* moduleFinishedPromise that does not look at compilationError.
RECURSIVE moduleFinishedPromise_IgnoresError(_, _, _)
moduleFinishedPromise_IgnoresError(B, todo, visited) ==
  IF todo = <<>> THEN [NotWaiting EXCEPT !.status = "done", !.visited = visited]
  ELSE LET id == Head(todo) IN
       IF id \in visited THEN moduleFinishedPromise_IgnoresError(B, Tail(todo), visited)
       ELSE IF getItem(B, id) /\ B.promises[id] = "pending"
       THEN [NotWaiting EXCEPT !.status = "walk", !.awaiting = id, !.todo = todo,
                               !.visited = visited]
       ELSE IF getItem(B, id) /\ B.promises[id] = "rejected"
       THEN Failed("Rejected", visited)
       ELSE IF id \notin DOMAIN B.modules THEN Failed("AssetNotInTree", visited)
       ELSE IF B.modules[id].compiled = NullCode THEN Failed("AssetNotCompiled", visited)
       ELSE moduleFinishedPromise_IgnoresError(
              B, SeqOfSet(B.modules[id].dependencies \ visited) \o Tail(todo),
              visited \cup {id})

\* moduleFinishedPromise run until it has to wait for a pending queue promise.
\* todo holds the ids still to visit, the innermost call first; visited is
\* moduleIds.  The result is "done", "failed" (it threw) or "walk" (waiting).
RECURSIVE moduleFinishedPromise(_, _, _)
moduleFinishedPromise(B, todo, visited) ==
  IF todo = <<>> THEN [NotWaiting EXCEPT !.status = "done", !.visited = visited]
  ELSE LET id == Head(todo) IN
       IF id \in visited THEN moduleFinishedPromise(B, Tail(todo), visited)
       ELSE IF getItem(B, id) /\ B.promises[id] = "pending"
       THEN [NotWaiting EXCEPT !.status = "walk", !.awaiting = id, !.todo = todo,
                               !.visited = visited]
       ELSE IF getItem(B, id) /\ B.promises[id] = "rejected"
       THEN Failed("Rejected", visited)
       ELSE IF id \notin DOMAIN B.modules THEN Failed("AssetNotInTree", visited)
       ELSE IF B.modules[id].compilationError # NoError
       THEN Failed(B.modules[id].compilationError, visited)
       ELSE IF B.modules[id].compiled = NullCode THEN Failed("AssetNotCompiled", visited)
       ELSE moduleFinishedPromise(B, SeqOfSet(B.modules[id].dependencies \ visited) \o Tail(todo),
                                  visited \cup {id})

\* `await transformModule(id)` followed by `await moduleFinishedPromise(id)`.
awaitTransformed(B, w, id) ==
  IF id \in DOMAIN B.modules /\ B.modules[id].compiled # NullCode
  THEN [B EXCEPT !.waits[w] = moduleFinishedPromise(B, <<id>>, {})]
  ELSE IF getItem(B, id) /\ B.promises[id] = "pending"
  THEN [B EXCEPT !.waits[w] = [NotWaiting EXCEPT !.status = "tm", !.awaiting = id]]
  ELSE IF getItem(B, id) /\ B.promises[id] = "rejected"
  THEN [B EXCEPT !.waits[w] = Failed("Rejected", {})]
  ELSE [B EXCEPT !.waits[w] = moduleFinishedPromise(B, <<id>>, {})]

\* `await Promise.all(promises)` over the promises transformModule gave for ids;
\* visited holds the ids whose promise is still pending.
awaitAll(B, w, ids) ==
  LET rejected == {id \in ids : getItem(B, id) /\ B.promises[id] = "rejected"}
      pending == {id \in ids : getItem(B, id) /\ B.promises[id] = "pending"}
  IN [B EXCEPT !.waits[w] =
        IF rejected # {} THEN Failed("Rejected", {})
        ELSE IF pending = {} THEN [NotWaiting EXCEPT !.status = "done"]
        ELSE [NotWaiting EXCEPT !.status = "all", !.visited = pending]]

\* Those awaiting the promise of name go on: a rejection throws in them.
Notify(B, name, outcome) ==
  [w \in DOMAIN B.waits |->
     LET a == B.waits[w]
         r == IF a.status \in {"tm", "walk"} /\ a.awaiting = name
              THEN IF outcome = "rejected" THEN Failed("Rejected", {})
                   ELSE IF a.status = "tm" THEN moduleFinishedPromise(B, <<name>>, {})
                   ELSE moduleFinishedPromise(B, a.todo, a.visited)
              ELSE IF a.status = "all" /\ name \in a.visited
              THEN IF outcome = "rejected" THEN Failed("Rejected", {})
                   ELSE IF a.visited = {name} THEN [NotWaiting EXCEPT !.status = "done"]
                   ELSE [a EXCEPT !.visited = @ \ {name}]
              ELSE a
     IN [r EXCEPT !.root = a.root]]

\* The callbacks of _tryCreatePrecompiledModule awaiting the promise of name go
\* on: a rejection rejects the Promise.all of their task.
NotifyTasks(B, name, outcome) ==
  [t \in DOMAIN B.task |->
     IF name \in B.task[t].await
     THEN [B.task[t] EXCEPT !.await = @ \ {name},
                            !.failed = @ \/ outcome = "rejected"]
     ELSE B.task[t]]

\* Settle that gives the slot to the task that waited least.
Settle_StartsLast(B, name, outcome) ==
  LET B1 == [B EXCEPT
               !.promises = IF shouldKeepResults THEN [@ EXCEPT ![name] = outcome]
                            ELSE [n \in (DOMAIN @) \ {name} |-> @[n]],
               !.running = @ - 1,
               !.inflight[name] = @ - 1,
               !.task[name] = Idle]
      B2 == [B1 EXCEPT !.waits = Notify(B1, name, outcome),
                       !.task = NotifyTasks(B1, name, outcome)]
      last == B2.waiting[Len(B2.waiting)]
  IN IF B2.waiting # <<>>
     THEN StartTask([B2 EXCEPT !.waiting = SubSeq(@, 1, Len(@) - 1),
                               !.admitted = Append(@, last)], last)
     ELSE B2

\* The task of name settles: its entry is kept or dropped, its slot goes to the
\* head of the waiting list.
Settle(B, name, outcome) ==
  LET B1 == [B EXCEPT
               !.promises = IF shouldKeepResults THEN [@ EXCEPT ![name] = outcome]
                            ELSE [n \in (DOMAIN @) \ {name} |-> @[n]],
               !.running = @ - 1,
               !.inflight[name] = @ - 1,
               !.task[name] = Idle]
      B2 == [B1 EXCEPT !.waits = Notify(B1, name, outcome),
                       !.task = NotifyTasks(B1, name, outcome)]
  IN IF B2.waiting # <<>>
     THEN StartTask([B2 EXCEPT !.waiting = Tail(@), !.admitted = Append(@, Head(B2.waiting))],
                    Head(B2.waiting))
     ELSE B2

(***************************************************************************)
(* Bundler.transformModule                                                 *)
(***************************************************************************)
\* transformModule without the queue: every call starts _transformModule.
transformModule_NoQueue(B, caller, id) ==
  LET B0 == [B EXCEPT !.tmInvoked = @ \cup {<<caller, id>>}] IN
  IF id \in DOMAIN B0.modules /\ B0.modules[id].compiled # NullCode THEN B0
  ELSE StartTask([B0 EXCEPT !.promises = (id :> "pending") @@ @], id)

\* caller names the calling function and, after it, the module it works on.
transformModule(B, caller, id) ==
  LET B0 == [B EXCEPT !.tmInvoked = @ \cup {<<caller, id>>}] IN
  IF id \in DOMAIN B0.modules /\ B0.modules[id].compiled # NullCode THEN B0
  ELSE IF getItem(B0, id)
  THEN IF B0.promises[id] = "pending" THEN [B0 EXCEPT !.joined = @ \cup {id}] ELSE B0
  ELSE addEntry(B0, id)

(***************************************************************************)
(* Module.addDependency, Module.compile, Module.resetCompilation           *)
(***************************************************************************)
addDependency(B, id, depSpecifier, resolved) ==
  [B EXCEPT !.modules[id].dependencies = @ \cup {resolved},
            !.modules[id].dependencyMap =
               {e \in @ : e[1] # depSpecifier} \cup {<<depSpecifier, resolved>>}]

\* compile() returns, having run.
compileReturn(B, id) ==
  [B EXCEPT !.compileReturns[id] = @ + 1, !.lastMarked[id] = B.task[id].marked]

\* _transformModule after `await module.compile()`: the loop over the dependencies.
fanoutBegin(B, id) ==
  IF B.modules[id].dependencies = {} THEN Settle(B, id, "resolved")
  ELSE [B EXCEPT !.task[id] = [Idle EXCEPT !.pc = "fanout"]]

\* compile() with a guard that looks at compiled only.
compileBegin_GuardCompiledOnly(B, id) ==
  LET m == B.modules[id]
      B0 == [B EXCEPT !.compileCalls[id] = @ + 1]
  IN IF m.compiled # NullCode THEN B0
     ELSE [B0 EXCEPT !.compileRuns[id] = @ + 1, !.trCalls[id] = @ + 1,
                     !.task[id] = [Idle EXCEPT !.pc = "tr", !.ti = 1, !.code = <<m.source>>]]

\* compile() that lets the error of getTransformers out.
compileBegin_LetsErrorOut(B, id) ==
  LET m == B.modules[id]
      B0 == [B EXCEPT !.compileCalls[id] = @ + 1]
  IN IF m.compiled # NullCode \/ m.compilationError # NoError THEN B0
     ELSE LET B1 == [B0 EXCEPT !.compileRuns[id] = @ + 1,
                               !.task[id] = [Idle EXCEPT !.pc = "begun"]]
          IN IF getTransformers(m.filepath) = THROWN
             THEN B1
             ELSE [B1 EXCEPT !.trCalls[id] = @ + 1,
                             !.task[id] = [Idle EXCEPT !.pc = "tr", !.ti = 1,
                                                       !.code = <<m.source>>]]

\* compile() that sets compiled to the source before the first transformer.
compileBegin_CompiledAtStart(B, id) ==
  LET m == B.modules[id]
      B0 == [B EXCEPT !.compileCalls[id] = @ + 1]
  IN IF m.compiled # NullCode \/ m.compilationError # NoError THEN B0
     ELSE LET B1 == [B0 EXCEPT !.compileRuns[id] = @ + 1,
                               !.task[id] = [Idle EXCEPT !.pc = "begun"]]
          IN IF getTransformers(m.filepath) = THROWN
             THEN compileReturn([B1 EXCEPT !.modules[id].compilationError = "Error"], id)
             ELSE [B1 EXCEPT !.trCalls[id] = @ + 1,
                             !.modules[id].compiled = <<m.source>>,
                             !.task[id] = [Idle EXCEPT !.pc = "tr", !.ti = 1,
                                                       !.code = <<m.source>>]]

\* compile() up to its first await: the guard, the transformer list, the first
\* transformer call.
compileBegin(B, id) ==
  LET m == B.modules[id]
      B0 == [B EXCEPT !.compileCalls[id] = @ + 1]
  IN IF m.compiled # NullCode \/ m.compilationError # NoError THEN B0
     ELSE LET B1 == [B0 EXCEPT !.compileRuns[id] = @ + 1,
                               !.task[id] = [Idle EXCEPT !.pc = "begun"]]
          IN IF getTransformers(m.filepath) = THROWN
             THEN compileReturn([B1 EXCEPT !.modules[id].compilationError = "Error"], id)
             ELSE [B1 EXCEPT !.trCalls[id] = @ + 1,
                             !.task[id] = [Idle EXCEPT !.pc = "tr", !.ti = 1,
                                                       !.code = <<m.source>>]]

\* The end of one round of the transformer loop.
nextTransformer(B, id) ==
  LET a == B.task[id] IN
  IF a.ti < Len(getTransformers(B.modules[id].filepath))
  THEN [B EXCEPT !.trCalls[id] = @ + 1,
                 !.task[id] = [a EXCEPT !.pc = "tr", !.ti = @ + 1, !.pend = {}]]
  ELSE fanoutBegin(compileReturn([B EXCEPT !.modules[id].compiled = a.code], id), id)

\* The fork bookkeeping without the transformModule call for the counterpart.
forkStep_NoCounterpart(B, id, isSubgraphFork) ==
  LET m == B.modules[id] IN
  IF B.task[id].marked \/ m.subgraphId = NO_SUBGRAPH THEN B
  ELSE IF isSubgraphFork
  THEN [setSubgraphFork(B, m, [source |-> [subgraphId |-> m.subgraphId, moduleId |-> id],
                               target |-> getModuleConterpartInfo(m)])
          EXCEPT !.task[id].marked = TRUE]
  ELSE LET exisitingSubgraphFork == getSubgraphFork(B, m) IN
       IF exisitingSubgraphFork # NoFork /\ exisitingSubgraphFork.target.moduleId # id
       THEN clearSubgraphFork(B, m)
       ELSE B

\* The fork bookkeeping that never clears a record.
forkStep_KeepsRecord(B, id, isSubgraphFork) ==
  LET m == B.modules[id] IN
  IF B.task[id].marked \/ m.subgraphId = NO_SUBGRAPH THEN B
  ELSE IF isSubgraphFork
  THEN LET other == getModuleConterpartInfo(m)
           B1 == setSubgraphFork(B, m, [source |-> [subgraphId |-> m.subgraphId,
                                                    moduleId |-> id],
                                        target |-> other])
       IN transformModule([B1 EXCEPT !.task[id].marked = TRUE], <<"compile">> \o id, other.moduleId)
  ELSE B

\* The subgraph fork bookkeeping of one successful transformer result.
forkStep(B, id, isSubgraphFork) ==
  LET m == B.modules[id] IN
  IF B.task[id].marked \/ m.subgraphId = NO_SUBGRAPH THEN B
  ELSE IF isSubgraphFork
  THEN LET other == getModuleConterpartInfo(m)
           B1 == setSubgraphFork(B, m, [source |-> [subgraphId |-> m.subgraphId,
                                                    moduleId |-> id],
                                        target |-> other])
       IN transformModule([B1 EXCEPT !.task[id].marked = TRUE], <<"compile">> \o id, other.moduleId)
  ELSE LET exisitingSubgraphFork == getSubgraphFork(B, m) IN
       IF exisitingSubgraphFork # NoFork /\ exisitingSubgraphFork.target.moduleId # id
       THEN clearSubgraphFork(B, m)
       ELSE B

\* The transformer called last answers.
compileTransformed(B, id) ==
  LET m == B.modules[id]
      a == B.task[id]
      tname == getTransformers(m.filepath)[a.ti]
      out == TransformOutcome(tname, a.code[1], m.subgraphId)
  IN CASE out.kind = "throw" ->
            fanoutBegin(compileReturn([B EXCEPT !.modules[id].compilationError = "Error"], id), id)
       [] out.kind = "error" ->
            nextTransformer([B EXCEPT !.modules[id].compilationError = "BundlerError"], id)
       [] OTHER ->
            LET B1 == forkStep([B EXCEPT !.task[id].code = Append(@, tname)], id, out.fork)
            IN IF out.deps = {} THEN nextTransformer(B1, id)
               ELSE [B1 EXCEPT !.task[id].pc = "deps", !.task[id].pend = out.deps]

\* The resolution awaited by one addDependency of the Promise.all settles.
compileDep(B, id, depSpecifier) ==
  LET m == B.modules[id]
      a == B.task[id]
      resolved == resolveAsync(depSpecifier, m.subgraphId)
      rest == a.pend \ {depSpecifier}
  IN IF resolved = THROWN
     THEN fanoutBegin(compileReturn(
            [B EXCEPT !.modules[id].compilationError = "ModuleNotFoundError",
                      !.orphans = @ \cup {<<id, s>> : s \in rest}], id), id)
     ELSE LET B1 == [addDependency(B, id, depSpecifier, resolved) EXCEPT !.task[id].pend = rest]
          IN IF rest = {} THEN nextTransformer(B1, id) ELSE B1

\* resetCompilation without the early return for a module that has no code.
resetCompilation_NoEarlyReturn(B, id) ==
  LET m == B.modules[id]
      B1 == [B EXCEPT !.modules[id].compilationError = NoError]
      B2 == [B1 EXCEPT !.modules[id].compiled = NullCode,
                       !.modules[id].evaluation = NoEvaluation]
      B3 == IF m.hot.hmrConfig /\ m.hot.isHot
            THEN [B2 EXCEPT !.modules[id].hot.dirty = TRUE]
            ELSE [B2 EXCEPT !.reload = TRUE]
  IN transformModule(B3, <<"resetCompilation">> \o id, id)

resetCompilation(B, id) ==
  LET m == B.modules[id]
      B1 == [B EXCEPT !.modules[id].compilationError = NoError]
  IN IF m.compiled = NullCode THEN B1
     ELSE LET B2 == [B1 EXCEPT !.modules[id].compiled = NullCode,
                               !.modules[id].evaluation = NoEvaluation]
              B3 == IF m.hot.hmrConfig /\ m.hot.isHot
                    THEN [B2 EXCEPT !.modules[id].hot.dirty = TRUE]
                    ELSE [B2 EXCEPT !.reload = TRUE]
          IN transformModule(B3, <<"resetCompilation">> \o id, id)

(***************************************************************************)
(* Bundler._transformModule                                                *)
(***************************************************************************)
\* _tryCreatePrecompiledModule has returned its module: it is put in the map,
\* compile() is called on it and the loop over its dependencies begins.
precompiledCreated(B, id) ==
  LET parsed == parseSubgraphPath(id, FALSE)
      a == B.task[id]
      nodeNodule == [NewModule(parsed.resourcePath, a.content, a.transpiled, parsed.subgraphId)
                       EXCEPT !.dependencies = a.deps, !.dependencyMap = a.depMap]
      B1 == [B EXCEPT !.modules = (id :> nodeNodule) @@ @]
      B2 == compileBegin(B1, id)
  IN IF B2.task[id].pc = "tr" THEN B2 ELSE fanoutBegin(B2, id)

\* The Promise.all of _tryCreatePrecompiledModule settles.  When it rejects the
\* task rejects, and the callbacks that have not resolved their specifier yet
\* still run.
preEnd(B, id) ==
  IF B.task[id].failed
  THEN Settle([B EXCEPT !.orphans = @ \cup {<<id, s, "pre">> : s \in B.task[id].pend}],
              id, "rejected")
  ELSE precompiledCreated(B, id)

\* _tryCreatePrecompiledModule up to the awaits of its callbacks.
tryCreatePrecompiledModule(B, id) ==
  LET fromNodeModules == getPath(parseSubgraphPath(id, FALSE).resourcePath)
      B1 == [B EXCEPT !.task[id] = [Idle EXCEPT !.pc = "pre",
                                                !.content = fromNodeModules.c,
                                                !.transpiled = fromNodeModules.t,
                                                !.pend = fromNodeModules.d]]
  IN IF fromNodeModules.d = {} THEN preEnd(B1, id) ELSE B1

\* One callback of _tryCreatePrecompiledModule: addDependency resolves its
\* specifier, then the callback awaits transformModule(resolved).
preDep(B, id, depSpecifier) ==
  LET resolved == resolveAsync(depSpecifier, parseSubgraphPath(id, FALSE).subgraphId)
      rest == B.task[id].pend \ {depSpecifier}
      B1 == [B EXCEPT !.task[id].pend = rest]
      B2 == IF resolved = THROWN THEN [B1 EXCEPT !.task[id].failed = TRUE]
            ELSE transformModule(
                   [B1 EXCEPT !.task[id].deps = @ \cup {resolved},
                              !.task[id].depMap = {e \in @ : e[1] # depSpecifier}
                                                    \cup {<<depSpecifier, resolved>>}],
                   <<"_tryCreatePrecompiledModule">> \o id, resolved)
      B3 == IF resolved = THROWN THEN B2
            ELSE IF resolved \in DOMAIN B2.modules /\ B2.modules[resolved].compiled # NullCode
            THEN B2
            ELSE IF getItem(B2, resolved) /\ B2.promises[resolved] = "pending"
            THEN [B2 EXCEPT !.task[id].await = @ \cup {resolved}]
            ELSE IF getItem(B2, resolved) /\ B2.promises[resolved] = "rejected"
            THEN [B2 EXCEPT !.task[id].failed = TRUE]
            ELSE B2
      a == B3.task[id]
  IN IF a.failed \/ (a.pend = {} /\ a.await = {}) THEN preEnd(B3, id) ELSE B3

\* A callback whose Promise.all already rejected goes on to transformModule.
preOrphan(B, id, depSpecifier) ==
  LET resolved == resolveAsync(depSpecifier, parseSubgraphPath(id, FALSE).subgraphId)
      B1 == [B EXCEPT !.orphans = @ \ {<<id, depSpecifier, "pre">>}]
  IN IF resolved = THROWN THEN B1
     ELSE transformModule(B1, <<"_tryCreatePrecompiledModule">> \o id, resolved)

\* From the start of the task to module.compile()'s first await: the module is
\* looked up, its file is read, the module is created or given the new source.
taskRead(B, id) ==
  LET parsed == parseSubgraphPath(id, FALSE)
      path == parsed.resourcePath
  IN IF id \in DOMAIN B.modules /\ B.modules[id].compiled # NullCode
     THEN Settle(B, id, "resolved")
     ELSE IF id \notin DOMAIN B.modules /\ getPath(path) # NoCdnFile
     THEN tryCreatePrecompiledModule(B, id)
     ELSE IF fs[path] = NoFile THEN Settle(B, id, "rejected")
     ELSE LET B1 == IF id \in DOMAIN B.modules
                    THEN [B EXCEPT !.modules[id].source = fs[path]]
                    ELSE [B EXCEPT !.modules =
                            (id :> NewModule(path, fs[path], FALSE, parsed.subgraphId)) @@ @]
              B2 == compileBegin(B1, id)
          IN IF B2.task[id].pc = "tr" THEN B2 ELSE fanoutBegin(B2, id)

\* One round of `for (let dep of module.dependencies)`.
taskFanout(B, id, dep) ==
  LET resolved == resolveAsync(dep, parseSubgraphPath(id, FALSE).subgraphId) IN
  IF resolved = THROWN THEN Settle(B, id, "rejected")
  ELSE LET B1 == [transformModule(B, <<"_transformModule">> \o id, resolved) EXCEPT !.task[id].fanDone = @ \cup {dep}]
       IN IF B1.modules[id].dependencies \subseteq B1.task[id].fanDone
          THEN Settle(B1, id, "resolved")
          ELSE B1

(***************************************************************************)
(* Evaluation.getExports, Evaluation.require, Module.evaluate.  The call   *)
(* stack of the synchronous evaluation is explicit: a frame is one run of  *)
(* a module's code, pc the operation it is at.                             *)
(***************************************************************************)
\* HotContext.clone: a fresh context (hot.data is not modelled).
clone(hot) == NewHot

Top(B) == B.stack[Len(B.stack)]

Pop(B) == [B EXCEPT !.stack = SubSeq(@, 1, Len(@) - 1)]

\* The Evaluation a frame belongs to is still the one its module holds.
Attached(B, f) ==
  /\ B.modules[f.id].evaluation.status # "none"
  /\ B.modules[f.id].evaluation.gen = f.gen

\* `module.evaluate().getExports()` has a value: require() returns it to the
\* code of the frame on top, which goes on; an outermost call just returns.
returnToCaller(B, target) ==
  LET e == B.modules[target].evaluation IN
  IF B.stack = <<>> THEN B
  ELSE [B EXCEPT !.seen = @ \cup {<<Top(B).id, target, e.status, e.exports>>},
                 !.stack[Len(B.stack)].pc = @ + 1]

\* getExports that runs the code again when the Evaluation has failed.
getExports_RerunsFailed(B, id, viaEvaluate) ==
  LET m == B.modules[id]
      e == m.evaluation
  IN CASE e.status \in {"NotEvaluated", "Failed"} ->
            IF m.compiled = NullCode THEN [B EXCEPT !.exc = "Error"]
            ELSE [B EXCEPT !.modules[id].evaluation.status = "Started",
                           !.execs[id] = @ + 1,
                           !.stack = Append(@, [id |-> id, gen |-> e.gen,
                                                content |-> m.compiled[1], pc |-> 1,
                                                via |-> viaEvaluate])]
       [] OTHER -> returnToCaller(B, id)

\* Evaluation.getExports up to the call of the module's code.
getExports(B, id, viaEvaluate) ==
  LET m == B.modules[id]
      e == m.evaluation
  IN CASE e.status = "NotEvaluated" ->
            IF m.compiled = NullCode THEN [B EXCEPT !.exc = "Error"]
            ELSE [B EXCEPT !.modules[id].evaluation.status = "Started",
                           !.execs[id] = @ + 1,
                           !.stack = Append(@, [id |-> id, gen |-> e.gen,
                                                content |-> m.compiled[1], pc |-> 1,
                                                via |-> viaEvaluate])]
       [] e.status = "Failed" -> [B EXCEPT !.exc = e.error]
       [] OTHER -> returnToCaller(B, id)

\* evaluate() that runs the code before it assigns this.evaluation: a module
\* required while it is running does not see its Evaluation.
evaluate_AssignsAfterRunning(B, id) ==
  LET m == B.modules[id] IN
  IF m.evaluation.status \notin {"none", "Started"} THEN B
  ELSE getExports([B EXCEPT !.modules[id].disposeCalls = IF m.hot.hmrConfig THEN @ + 1 ELSE @,
                            !.modules[id].hot = clone(m.hot),
                            !.modules[id].evaluation =
                               [NoEvaluation EXCEPT !.status = "NotEvaluated",
                                                    !.gen = B.evals[id] + 1],
                            !.evals[id] = @ + 1], id, TRUE)

\* evaluate() that makes a new Evaluation of a module whose Evaluation is
\* finished.
evaluate_AgainWhenFinished(B, id) ==
  LET m == B.modules[id] IN
  IF m.evaluation.status \notin {"none", "Finished"} THEN B
  ELSE getExports([B EXCEPT !.modules[id].disposeCalls = IF m.hot.hmrConfig THEN @ + 1 ELSE @,
                            !.modules[id].hot = clone(m.hot),
                            !.modules[id].evaluation =
                               [NoEvaluation EXCEPT !.status = "NotEvaluated",
                                                    !.gen = B.evals[id] + 1],
                            !.evals[id] = @ + 1], id, TRUE)

\* Module.evaluate up to the call of the module's code; the Evaluation the
\* module holds is returned as it is.  disposeCalls counts the calls of
\* hot.hmrConfig.callDisposeHandler().
evaluate(B, id) ==
  LET m == B.modules[id] IN
  IF m.evaluation.status # "none" THEN B
  ELSE getExports([B EXCEPT !.modules[id].disposeCalls = IF m.hot.hmrConfig THEN @ + 1 ELSE @,
                            !.modules[id].hot = clone(m.hot),
                            !.modules[id].evaluation =
                               [NoEvaluation EXCEPT !.status = "NotEvaluated",
                                                    !.gen = B.evals[id] + 1],
                            !.evals[id] = @ + 1], id, TRUE)

\* The outermost evaluate() call is over: its caller has the outcome.
finishCall(B) ==
  IF B.stack # <<>> \/ B.evalCaller = "none" THEN B
  ELSE LET B1 == [B EXCEPT !.exc = NoError, !.evalCaller = "none", !.thrown = B.exc] IN
       IF B.evalCaller # "import" THEN B1
       ELSE IF B.exc # NoError THEN [B1 EXCEPT !.dyn.status = "rejected"]
       ELSE LET moduleId == (CHOOSE e \in B.modules[B.dyn.importer].dependencyMap :
                               e[1] = B.dyn.specifier)[2]
            IN [B1 EXCEPT !.dyn.status = "resolved",
                          !.dyn.value = B.modules[moduleId].evaluation.exports]

\* Evaluation.require: the specifier is looked up in the importer's
\* dependencyMap; one that is absent starts prepareDynamicImport and yields a
\* promise flagged __esModule.  `module.evaluate().getExports()`: when
\* evaluate() returned the Evaluation without running code, getExports() is
\* called on it here; when it runs the code, at the return of that code.
require(B, f, specifier) ==
  LET hits == {e \in B.modules[f.id].dependencyMap : e[1] = specifier} IN
  IF hits = {}
  THEN [B EXCEPT !.dyn = [status |-> "adding", importer |-> f.id, specifier |-> specifier,
                          value |-> {}],
                 !.seen = @ \cup {<<f.id, specifier, "promise", {<<"__esModule">>}>>},
                 !.stack = IF @ = <<>> THEN @ ELSE [@ EXCEPT ![Len(@)].pc = @ + 1]]
  ELSE LET moduleId == (CHOOSE e \in hits : TRUE)[2] IN
       IF moduleId \notin DOMAIN B.modules THEN [B EXCEPT !.exc = "Error"]
       ELSE LET B1 == evaluate(B, moduleId) IN
            IF B1.stack # B.stack \/ B1.exc # NoError THEN B1
            ELSE getExports(B1, moduleId, FALSE)

\* The code of the frame on top has run to its end: the rest of getExports
\* and, for a frame begun in Module.evaluate, the rest of evaluate and the
\* getExports() of a require() that called it; the thunk drops the Evaluation.
codeReturns(B) ==
  LET f == Top(B)
      B1 == Pop(IF Attached(B, f)
                THEN [B EXCEPT !.modules[f.id].evaluation.status = "Finished"]
                ELSE B)
      m == B1.modules[f.id]
  IN IF ~f.via THEN returnToCaller(B1, f.id)
     ELSE IF m.evaluation.status = "none" THEN [B1 EXCEPT !.exc = "EvaluationResetError"]
     ELSE LET B2 == IF m.hot.hmrConfig /\ m.hot.isHot
                    THEN [B1 EXCEPT !.modules[f.id].hot.dirty = FALSE]
                    ELSE B1
          IN IF B2.stack = <<>> /\ B2.evalCaller = "thunk" THEN B2
             ELSE getExports(B2, f.id, FALSE)

\* One operation of the code on top of the stack, or one frame unwound by the
\* exception in flight (getExports' catch, then its rethrow).
evalStep(B) ==
  LET f == Top(B)
      n == Len(B.stack)
      ops == CodeOps(f.content)
  IN IF B.exc # NoError
     THEN Pop(IF Attached(B, f)
              THEN [B EXCEPT !.modules[f.id].evaluation.status = "Failed",
                             !.modules[f.id].evaluation.error = B.exc]
              ELSE B)
     ELSE IF f.pc > Len(ops) THEN codeReturns(B)
     ELSE LET o == ops[f.pc] IN
          CASE o.op = "export" ->
                 [(IF Attached(B, f)
                   THEN [B EXCEPT !.modules[f.id].evaluation.exports = @ \cup {o.arg}]
                   ELSE B) EXCEPT !.stack[n].pc = @ + 1]
            [] o.op = "throw" -> [B EXCEPT !.exc = "Error"]
            [] o.op = "accept" ->
                 [B EXCEPT !.modules[f.id].hot.hmrConfig = TRUE,
                           !.modules[f.id].hot.isHot = TRUE,
                           !.hasHMR = TRUE, !.stack[n].pc = @ + 1]
            [] o.op = "invalidate" ->
                 resetCompilation([B EXCEPT !.modules[f.id].hot.hmrConfig = TRUE,
                                            !.modules[f.id].hot.invalidated = TRUE,
                                            !.hasHMR = TRUE, !.stack[n].pc = @ + 1], f.id)
            [] OTHER -> require(B, f, o.arg)

\* prepareDynamicImport, from addDependency's resolution to the two awaits.
prepareDynamicImport(B) ==
  LET importer == B.dyn.importer
      resolved == resolveAsync(B.dyn.specifier, B.modules[importer].subgraphId)
  IN IF resolved = THROWN THEN [B EXCEPT !.dyn.status = "rejected"]
     ELSE LET B1 == addDependency(B, importer, B.dyn.specifier, resolved)
              B2 == transformModule(B1, <<"prepareDynamicImport">> \o importer, resolved)
          IN awaitTransformed([B2 EXCEPT !.dyn.status = "waiting"], "import", resolved)

\* The async function of require() going on to this.require(specifier) whatever
\* prepareDynamicImport threw.
importRequire_IgnoresFailure(B) ==
  LET B1 == [B EXCEPT !.waits["import"] = NotWaiting]
      f == [id |-> B.dyn.importer]
  IN finishCall(require([B1 EXCEPT !.evalCaller = "import"], f, B.dyn.specifier))

\* The async function of require() after prepareDynamicImport: it throws what
\* that threw, or calls this.require(specifier) again.
importRequire(B) ==
  LET B1 == [B EXCEPT !.waits["import"] = NotWaiting]
      f == [id |-> B.dyn.importer]
  IN IF B.waits["import"].status = "failed" THEN [B1 EXCEPT !.dyn.status = "rejected"]
     ELSE finishCall(require([B1 EXCEPT !.evalCaller = "import"], f, B.dyn.specifier))

(***************************************************************************)
(* Steps of the transformation pipeline                                    *)
(***************************************************************************)
\* The evaluation and the thunk are synchronous: nothing else runs meanwhile.
Quiet == stack = <<>> /\ thunk.status # "running"

Config == <<concurrency, shouldKeepResults, sharedPackages, sharedModulePaths,
            subgraphImportConditions, Aside>>

TaskRead(id) ==
  /\ Quiet
  /\ task[id].pc = "start"
  /\ Apply(taskRead(Bundle, id))
  /\ UNCHANGED <<fs, Config, envCalls>>

CompileTransformed(id) ==
  /\ Quiet
  /\ task[id].pc = "tr"
  /\ Apply(compileTransformed(Bundle, id))
  /\ UNCHANGED <<fs, Config, envCalls>>

CompileDep(id, depSpecifier) ==
  /\ Quiet
  /\ task[id].pc = "deps"
  /\ depSpecifier \in task[id].pend
  /\ Apply(compileDep(Bundle, id, depSpecifier))
  /\ UNCHANGED <<fs, Config, envCalls>>

\* An addDependency whose Promise.all already rejected still adds its dependency.
OrphanDep(id, depSpecifier) ==
  /\ Quiet
  /\ <<id, depSpecifier>> \in orphans
  /\ LET resolved == resolveAsync(depSpecifier, modules[id].subgraphId)
         B == [Bundle EXCEPT !.orphans = @ \ {<<id, depSpecifier>>}]
     IN Apply(IF resolved = THROWN THEN B ELSE addDependency(B, id, depSpecifier, resolved))
  /\ UNCHANGED <<fs, Config, envCalls>>

PreDep(id, depSpecifier) ==
  /\ Quiet
  /\ task[id].pc = "pre"
  /\ depSpecifier \in task[id].pend
  /\ Apply(preDep(Bundle, id, depSpecifier))
  /\ UNCHANGED <<fs, Config, envCalls>>

\* The last awaited promise has settled, or one was rejected.
PreEnd(id) ==
  /\ Quiet
  /\ task[id].pc = "pre"
  /\ task[id].failed \/ (task[id].pend = {} /\ task[id].await = {})
  /\ Apply(preEnd(Bundle, id))
  /\ UNCHANGED <<fs, Config, envCalls>>

PreOrphan(id, depSpecifier) ==
  /\ Quiet
  /\ <<id, depSpecifier, "pre">> \in orphans
  /\ Apply(preOrphan(Bundle, id, depSpecifier))
  /\ UNCHANGED <<fs, Config, envCalls>>

TaskFanout(id, dep) ==
  /\ Quiet
  /\ task[id].pc = "fanout"
  /\ dep \in modules[id].dependencies \ task[id].fanDone
  /\ Apply(taskFanout(Bundle, id, dep))
  /\ UNCHANGED <<fs, Config, envCalls>>

(***************************************************************************)
(* The callers of the pipeline: Bundler.compile and its thunk, the         *)
(* evaluation of dynamic imports and module.hot, taken one call at a time. *)
(***************************************************************************)
MaxCalls == 3

getSubgraphs == IF hasSubgraphs THEN <<"server", "client">> ELSE <<NO_SUBGRAPH>>

activeSubgraphs == {getSubgraphs[i] : i \in 1..Len(getSubgraphs)}

UserPaths == {IndexJs, AJs}
UserIds == {toSubGraphPath(p, s) : p \in UserPaths, s \in activeSubgraphs}

IndexContents == {"impA", "impCore", "impTwo", "bad"}
AContents == {"plain", "useClient", "boom"}
Contents(path) == IF path = IndexJs THEN IndexContents ELSE AContents

CallTransformModule(id) ==
  /\ Quiet
  /\ envCalls < MaxCalls
  /\ Apply(transformModule(Bundle, <<"caller">>, id))
  /\ envCalls' = envCalls + 1
  /\ UNCHANGED <<fs, Config>>

CallResetCompilation(id) ==
  /\ Quiet
  /\ envCalls < MaxCalls
  /\ id \in DOMAIN modules
  /\ Apply(resetCompilation(Bundle, id))
  /\ envCalls' = envCalls + 1
  /\ UNCHANGED <<fs, Config>>

\* fs.writeFile
WriteFile(path, content) ==
  /\ Quiet
  /\ envCalls < MaxCalls
  /\ fs[path] # content
  /\ fs' = [fs EXCEPT ![path] = content]
  /\ envCalls' = envCalls + 1
  /\ UNCHANGED <<Config>>
  /\ Apply(Bundle)

\* compile() called on a module that is compiled or has failed to compile.
CompileAgain(id) ==
  /\ Quiet
  /\ envCalls < MaxCalls
  /\ id \in DOMAIN modules
  /\ modules[id].compiled # NullCode \/ modules[id].compilationError # NoError
  /\ Apply(compileBegin(Bundle, id))
  /\ envCalls' = envCalls + 1
  /\ UNCHANGED <<fs, Config>>

\* moduleFinishedPromise(id) called while the pipeline works.
CallModuleFinishedPromise(id) ==
  /\ Quiet
  /\ envCalls < MaxCalls
  /\ waits["caller"].status \in {"idle", "done", "failed"}
  /\ Apply([Bundle EXCEPT !.waits["caller"] =
                            [moduleFinishedPromise(Bundle, <<id>>, {}) EXCEPT !.root = id]])
  /\ envCalls' = envCalls + 1
  /\ UNCHANGED <<fs, Config>>

\* The thunk of Bundler.compile evaluates a compiled module.
CallEvaluate(id) ==
  /\ Quiet
  /\ evalCaller = "none"
  /\ envCalls < MaxCalls
  /\ id \in DOMAIN modules
  /\ modules[id].compiled # NullCode
  /\ Apply(finishCall(evaluate([Bundle EXCEPT !.evalCaller = "thunk"], id)))
  /\ envCalls' = envCalls + 1
  /\ UNCHANGED <<fs, Config>>

EvalStep ==
  /\ stack # <<>>
  /\ Apply(finishCall(evalStep(Bundle)))
  /\ UNCHANGED <<fs, Config, envCalls>>

DynAdd ==
  /\ Quiet
  /\ dyn.status = "adding"
  /\ Apply(prepareDynamicImport(Bundle))
  /\ UNCHANGED <<fs, Config, envCalls>>

DynRequire ==
  /\ Quiet
  /\ evalCaller = "none"
  /\ dyn.status = "waiting"
  /\ waits["import"].status \in {"done", "failed"}
  /\ Apply(importRequire(Bundle))
  /\ UNCHANGED <<fs, Config, envCalls>>

TRANSFORM_CONCURRENCY == 50

ZeroPerId == [id \in Ids |-> 0]

\* A field /package.json does not have, and a field that holds a number.
Undefined == <<"#undefined">>
NotAString == <<"#number">>

\* parsedPackageJSON before /package.json was read, and after a /package.json
\* whose JSON value is null: `parsed` tells that the field holds an object.
\* dependencies are the entries of the dependencies block in the order they are
\* written.
NoPackageJSON == [parsed |-> FALSE, dependencies |-> <<>>,
                  main |-> Undefined, source |-> Undefined, module |-> Undefined]

\* null, which the empty string is not.
NullDepString == <<"#null">>

NoPass == [pc |-> "idle", todo |-> <<>>, cur |-> <<>>, entries |-> <<>>, changedFiles |-> {},
           error |-> NoError, added |-> {},
           firstLoad |-> FALSE, hotChanged |-> {}, coldChanged |-> {},
           reloadBefore |-> FALSE, sigChanged |-> FALSE,
           sigBefore |-> NullDepString, loadsBefore |-> 0, entryStepsBefore |-> 0,
           gens |-> ZeroPerId, reset |-> {}, outcome |-> "none"]

NoThunk == [status |-> "none", kind |-> "noop", todo |-> <<>>, visited |-> {}]

(***************************************************************************)
(* Bundler.compile and the thunk it returns                                *)
(***************************************************************************)
\* JSON.parse of /package.json (external): its dependencies block.
parsePackageJSON(content) ==
  LET Fields(deps, main, source, module) ==
        [parsed |-> TRUE, dependencies |-> deps,
         main |-> main, source |-> source, module |-> module]
  IN CASE content = "pkg" ->
            Fields(<<<<"a", "1">>, <<"core-js", "3">>>>, Undefined, Undefined, Undefined)
       [] content = "pkgSwap" ->
            Fields(<<<<"core-js", "3">>, <<"a", "1">>>>, Undefined, Undefined, Undefined)
       [] content = "pkgV2" ->
            Fields(<<<<"a", "2">>, <<"core-js", "3">>>>, Undefined, Undefined, Undefined)
       [] content = "pkgNull" -> NoPackageJSON
       [] content = "pkgMain" -> Fields(<<>>, <<"a">>, Undefined, Undefined)
       [] content = "pkgMainGone" -> Fields(<<>>, <<"./", "gone">>, Undefined, Undefined)
       [] content = "pkgSource" -> Fields(<<>>, <<"./", "gone">>, <<"./", "a">>, Undefined)
       [] content = "pkgModule" -> Fields(<<>>, NotAString, <<"gone">>, <<"a">>)
       [] content = "pkgTwice" -> Fields(<<>>, <<"./", "gone">>, <<"./", "gone">>, <<"index">>)
       [] OTHER -> Fields(<<>>, Undefined, Undefined, Undefined)

\* JSON.parse throws a SyntaxError for a text that is not JSON.
JSONParseThrows(content) == content = "pkgBad"

\* The order of the strings `name:version` the model uses.
EntryRank(e) ==
  (CASE e[1] = "a" -> 0 [] e[1] = "core-js" -> 2 [] OTHER -> 4)
    + (IF e[2] = "1" THEN 0 ELSE 1)

EntryBefore(e1, e2) == EntryRank(e1) < EntryRank(e2)

\* Object.entries(dependencies).map(`${name}:${version}`).sort().join(',')
depString(parsed) == SortSeq(parsed.dependencies, EntryBefore)

\* writeNewFiles that takes a file not stored yet for a changed one.
writeNewFiles_CountsNew(files) == {p \in DOMAIN files : fs[p] # files[p]}

\* The paths writeNewFiles returns: readFileSync throws for a file that is not
\* stored, and the catch leaves its path out.  The files are written by the
\* caller of compileStart.
writeNewFiles(files) == {p \in DOMAIN files : fs[p] # NoFile /\ fs[p] # files[p]}

\* Preset.defaultEntryPoints
defaultEntryPoints == <<<<"index">>, <<"src/index">>>>

\* `./${potentialEntry}` for an entry that begins with neither '.' nor '/'.
normalizeEntry(potentialEntry) ==
  IF potentialEntry # <<>> /\ Head(potentialEntry) \in {"./", "/"} THEN potentialEntry
  ELSE <<"./">> \o potentialEntry

\* new Set(array): the elements in the order of their first occurrence.
RECURSIVE SetInOrder(_)
SetInOrder(array) ==
  IF array = <<>> THEN <<>>
  ELSE LET rest == SetInOrder(SubSeq(array, 1, Len(array) - 1))
           last == array[Len(array)]
       IN IF \E i \in 1..Len(rest) : rest[i] = last THEN rest ELSE Append(rest, last)

IsStringEntry(e) == e \notin {Undefined, NotAString}

potentialEntries(parsed, subgraphId) ==
  SetInOrder(SelectSeq(
    <<parsed.main, parsed.source, parsed.module>>
      \o (IF subgraphId # NO_SUBGRAPH
          THEN [i \in 1..Len(defaultEntryPoints) |-> defaultEntryPoints[i] \o <<".", subgraphId>>]
          ELSE <<>>)
      \o defaultEntryPoints,
    IsStringEntry))

\* The loop that gives up at the first entry that does not resolve.
RECURSIVE FirstResolved_StopsAtFailure(_, _)
FirstResolved_StopsAtFailure(entries, subgraphId) ==
  IF entries = <<>> THEN THROWN
  ELSE resolveAsync(normalizeEntry(Head(entries)), subgraphId)

\* The first of the potential entries that resolves.
RECURSIVE FirstResolved(_, _)
FirstResolved(entries, subgraphId) ==
  IF entries = <<>> THEN THROWN
  ELSE LET r == resolveAsync(normalizeEntry(Head(entries)), subgraphId) IN
       IF r # THROWN THEN r ELSE FirstResolved(Tail(entries), subgraphId)

resolveEntryPoint(B, subgraphId) ==
  IF ~B.parsedPackageJSON.parsed THEN THROWN
  ELSE FirstResolved(potentialEntries(B.parsedPackageJSON, subgraphId), subgraphId)

\* compile() throws error.
compileThrows(B, error) ==
  [B EXCEPT !.pass.pc = "idle", !.pass.outcome = "threw", !.pass.error = error,
            !.waits["compile"] = NotWaiting]

\* loadNodeModules: it throws while parsedPackageJSON holds no object; else the
\* precompiled file of core-js goes into the module graph.
loadNodeModules(B) ==
  LET B1 == [B EXCEPT !.loads = @ + 1] IN
  IF ~B.parsedPackageJSON.parsed THEN compileThrows(B1, "NoParsedPackageJSON")
  ELSE IF B.parsedPackageJSON.dependencies = <<>> \/ CoreJs \in DOMAIN B.modules THEN B1
  ELSE [B1 EXCEPT !.modules = (CoreJs :> NewModule(CoreJs, "plain", TRUE, NO_SUBGRAPH)) @@ @]

\* processPackageJSON that throws every error of JSON.parse.
processPackageJSON_AlwaysThrows(B) ==
  IF JSONParseThrows(fs[PackageJson]) THEN compileThrows(B, "SyntaxError")
  ELSE [B EXCEPT !.parsedPackageJSON = parsePackageJSON(fs[PackageJson])]

\* processPackageJSON: /package.json is read and parsed; the error of JSON.parse
\* is thrown on only while parsedPackageJSON holds no object.
processPackageJSON(B) ==
  IF JSONParseThrows(fs[PackageJson])
  THEN IF ~B.parsedPackageJSON.parsed THEN compileThrows(B, "SyntaxError") ELSE B
  ELSE [B EXCEPT !.parsedPackageJSON = parsePackageJSON(fs[PackageJson])]

\* compile() returns the thunk.
returnThunk(B, kind, todo) ==
  [B EXCEPT !.pass.pc = "idle", !.pass.outcome = kind, !.waits["compile"] = NotWaiting,
            !.thunk = IF kind = "noop" THEN NoThunk
                      ELSE [NoThunk EXCEPT !.status = "ready", !.kind = kind, !.todo = todo]]

\* The loop over the changed files: every module of a changed file is reset and
\* queued again.
RECURSIVE resetChanged(_, _)
resetChanged(B, ids) ==
  IF ids = <<>> THEN B
  ELSE resetChanged(IF Head(ids) \in DOMAIN B.modules
                    THEN transformModule(resetCompilation(B, Head(ids)),
                                         <<"Bundler.compile">>, Head(ids))
                    ELSE B, Tail(ids))

\* compile(files) that goes on without awaiting the promises of the modules it
\* reset.
compileStart_NoAwait(B, files) ==
  LET changedFiles == IF B.isFirstLoad THEN {} ELSE writeNewFiles(files)
      ids == {toSubGraphPath(f, sg) : f \in changedFiles, sg \in activeSubgraphs}
      P == [NoPass EXCEPT
              !.pc = "changed", !.changedFiles = changedFiles, !.firstLoad = B.isFirstLoad,
              !.reset = ids \cap DOMAIN B.modules,
              !.added = {p \in DOMAIN files : fs[p] = NoFile},
              !.hotChanged = {id \in ids \cap DOMAIN B.modules :
                                /\ B.hasHMR
                                /\ B.modules[id].compiled # NullCode
                                /\ B.modules[id].hot.hmrConfig /\ B.modules[id].hot.isHot},
              !.coldChanged = {id \in ids \cap DOMAIN B.modules :
                                 ~(B.modules[id].hot.hmrConfig /\ B.modules[id].hot.isHot)},
              !.reloadBefore = B.reload,
              !.sigChanged = /\ fs[PackageJson] # files[PackageJson]
                             /\ ~JSONParseThrows(files[PackageJson])
                             /\ B.previousDepString # NullDepString
                             /\ depString(parsePackageJSON(files[PackageJson]))
                                  # B.previousDepString,
              !.sigBefore = B.previousDepString, !.loadsBefore = B.loads,
              !.entryStepsBefore = B.entrySteps, !.gens = B.evals]
      B0 == [B EXCEPT !.pass = P, !.thunk = NoThunk]
  IN IF ~B.isFirstLoad /\ changedFiles = {} THEN returnThunk(B0, "noop", <<>>)
     ELSE IF ~B.isFirstLoad /\ ~B.hasHMR
     THEN returnThunk([B0 EXCEPT !.reload = TRUE], "noop", <<>>)
     ELSE awaitAll(resetChanged(B0, SeqOfSet(ids)), "compile", {})

\* compile(files) to its first await: the files are written and, on a later
\* load, the modules of the changed files are reset and queued again.
compileStart(B, files) ==
  LET changedFiles == IF B.isFirstLoad THEN {} ELSE writeNewFiles(files)
      ids == {toSubGraphPath(f, sg) : f \in changedFiles, sg \in activeSubgraphs}
      P == [NoPass EXCEPT
              !.pc = "changed", !.changedFiles = changedFiles, !.firstLoad = B.isFirstLoad,
              !.reset = ids \cap DOMAIN B.modules,
              !.added = {p \in DOMAIN files : fs[p] = NoFile},
              !.hotChanged = {id \in ids \cap DOMAIN B.modules :
                                /\ B.hasHMR
                                /\ B.modules[id].compiled # NullCode
                                /\ B.modules[id].hot.hmrConfig /\ B.modules[id].hot.isHot},
              !.coldChanged = {id \in ids \cap DOMAIN B.modules :
                                 ~(B.modules[id].hot.hmrConfig /\ B.modules[id].hot.isHot)},
              !.reloadBefore = B.reload,
              !.sigChanged = /\ fs[PackageJson] # files[PackageJson]
                             /\ ~JSONParseThrows(files[PackageJson])
                             /\ B.previousDepString # NullDepString
                             /\ depString(parsePackageJSON(files[PackageJson]))
                                  # B.previousDepString,
              !.sigBefore = B.previousDepString, !.loadsBefore = B.loads,
              !.entryStepsBefore = B.entrySteps, !.gens = B.evals]
      B0 == [B EXCEPT !.pass = P, !.thunk = NoThunk]
  IN IF ~B.isFirstLoad /\ changedFiles = {} THEN returnThunk(B0, "noop", <<>>)
     ELSE IF ~B.isFirstLoad /\ ~B.hasHMR
     THEN returnThunk([B0 EXCEPT !.reload = TRUE], "noop", <<>>)
     ELSE awaitAll(resetChanged(B0, SeqOfSet(ids)), "compile", ids \cap DOMAIN B.modules)

\* compileItem whose thunk takes the entry modules before the runtimes.
compileItem_EntriesFirst(B) ==
  IF B.pass.todo = <<>>
  THEN returnThunk(B, IF B.isFirstLoad THEN "first" ELSE "incremental",
                   IF B.isFirstLoad THEN B.pass.entries \o <<RuntimePath>> ELSE <<>>)
  ELSE LET item == Head(B.pass.todo)
           id == IF item.kind = "runtime" THEN RuntimePath
                 ELSE resolveEntryPoint(B, item.subgraphId)
           B1 == IF item.kind = "entry" THEN [B EXCEPT !.entrySteps = @ + 1] ELSE B
       IN IF id = THROWN THEN compileThrows(B1, "NoEntryPoint")
          ELSE awaitTransformed(transformModule([B1 EXCEPT !.pass.cur = id],
                                                <<"Bundler.compile">>, id), "compile", id)

\* The next runtime or entry point is queued and awaited; after the last,
\* compile() returns the thunk.
compileItem(B) ==
  IF B.pass.todo = <<>>
  THEN returnThunk(B, IF B.isFirstLoad THEN "first" ELSE "incremental",
                   IF B.isFirstLoad THEN <<RuntimePath>> \o B.pass.entries ELSE <<>>)
  ELSE LET item == Head(B.pass.todo)
           id == IF item.kind = "runtime" THEN RuntimePath
                 ELSE resolveEntryPoint(B, item.subgraphId)
           B1 == IF item.kind = "entry" THEN [B EXCEPT !.entrySteps = @ + 1] ELSE B
       IN IF id = THROWN THEN compileThrows(B1, "NoEntryPoint")
          ELSE awaitTransformed(transformModule([B1 EXCEPT !.pass.cur = id],
                                                <<"Bundler.compile">>, id), "compile", id)

\* compileDeps that stores the new dependency signature without comparing it.
compileDeps_IgnoresSignature(B) ==
  IF B.waits["compile"].status = "failed" THEN compileThrows(B, B.waits["compile"].error)
  ELSE LET reads == B.isFirstLoad \/ PackageJson \in B.pass.changedFiles
           B1 == IF reads THEN processPackageJSON(B) ELSE B
           B2 == IF B1.pass.pc = "idle" THEN B1
                 ELSE IF reads
                 THEN loadNodeModules([B1 EXCEPT !.previousDepString =
                                                    depString(B1.parsedPackageJSON)])
                 ELSE B1
           todo == (IF B.isFirstLoad
                    THEN <<[kind |-> "runtime", subgraphId |-> NO_SUBGRAPH]>>
                    ELSE <<>>)
                   \o [i \in 1..Len(getSubgraphs) |->
                         [kind |-> "entry", subgraphId |-> getSubgraphs[i]]]
       IN IF B2.pass.pc = "idle" THEN B2
          ELSE compileItem([B2 EXCEPT !.pass.pc = "transpiling", !.pass.todo = todo])

\* compileDeps that takes the entry points before the runtimes.
compileDeps_RuntimesLast(B) ==
  IF B.waits["compile"].status = "failed" THEN compileThrows(B, B.waits["compile"].error)
  ELSE LET reads == B.isFirstLoad \/ PackageJson \in B.pass.changedFiles
           B1 == IF reads THEN processPackageJSON(B) ELSE B
           sig == depString(B1.parsedPackageJSON)
       IN IF B1.pass.pc = "idle" THEN B1
          ELSE IF reads /\ B.previousDepString # NullDepString /\ sig # B.previousDepString
          THEN returnThunk([B1 EXCEPT !.reload = TRUE], "noop", <<>>)
          ELSE LET B2 == IF reads
                         THEN loadNodeModules([B1 EXCEPT !.previousDepString = sig])
                         ELSE B1
                   todo == [i \in 1..Len(getSubgraphs) |->
                              [kind |-> "entry", subgraphId |-> getSubgraphs[i]]]
                           \o (IF B.isFirstLoad
                               THEN <<[kind |-> "runtime", subgraphId |-> NO_SUBGRAPH]>>
                               ELSE <<>>)
               IN IF B2.pass.pc = "idle" THEN B2
                  ELSE compileItem([B2 EXCEPT !.pass.pc = "transpiling", !.pass.todo = todo])

\* compile() after the changed modules are transformed: /package.json, the
\* dependency signature, the node modules, then the first runtime or entry.
compileDeps(B) ==
  IF B.waits["compile"].status = "failed" THEN compileThrows(B, B.waits["compile"].error)
  ELSE LET reads == B.isFirstLoad \/ PackageJson \in B.pass.changedFiles
           B1 == IF reads THEN processPackageJSON(B) ELSE B
           sig == depString(B1.parsedPackageJSON)
       IN IF B1.pass.pc = "idle" THEN B1
          ELSE IF reads /\ B.previousDepString # NullDepString /\ sig # B.previousDepString
          THEN returnThunk([B1 EXCEPT !.reload = TRUE], "noop", <<>>)
          ELSE LET B2 == IF reads
                         THEN loadNodeModules([B1 EXCEPT !.previousDepString = sig])
                         ELSE B1
                   todo == (IF B.isFirstLoad
                            THEN <<[kind |-> "runtime", subgraphId |-> NO_SUBGRAPH]>>
                            ELSE <<>>)
                           \o [i \in 1..Len(getSubgraphs) |->
                                 [kind |-> "entry", subgraphId |-> getSubgraphs[i]]]
               IN IF B2.pass.pc = "idle" THEN B2
                  ELSE compileItem([B2 EXCEPT !.pass.pc = "transpiling", !.pass.todo = todo])

\* The awaited runtime or entry point and all it depends on are compiled.
compileNext(B) ==
  IF B.waits["compile"].status = "failed" THEN compileThrows(B, B.waits["compile"].error)
  ELSE LET item == Head(B.pass.todo)
           B1 == IF item.kind = "entry"
                 THEN [B EXCEPT !.modules[B.pass.cur].isEntry = TRUE,
                                !.pass.entries = Append(@, B.pass.cur)]
                 ELSE B
       IN compileItem([B1 EXCEPT !.pass.todo = Tail(@)])

\* The thunk stops: it has thrown or come to its end.
thunkEnds(B, outcome) == [B EXCEPT !.thunk = NoThunk, !.pass.outcome = outcome]

\* The thunk of a first load that clears isFirstLoad before it evaluates.
thunkFirst_ClearsEarly(B) ==
  IF B.thunk.status = "running" /\ B.thrown # NoError THEN thunkEnds(B, "evalThrew")
  ELSE IF B.thunk.todo = <<>>
  THEN thunkEnds([B EXCEPT !.isFirstLoad = FALSE], "evaluated")
  ELSE LET id == Head(B.thunk.todo) IN
       IF id \notin DOMAIN B.modules THEN thunkEnds(B, "evalThrew")
       ELSE evaluate([B EXCEPT !.thunk.status = "running", !.thunk.todo = Tail(@),
                               !.evalCaller = "thunk", !.thrown = NoError,
                               !.isFirstLoad = FALSE], id)

\* The thunk of a first load: the runtimes, then the entry modules.
thunkFirst(B) ==
  IF B.thunk.status = "running" /\ B.thrown # NoError THEN thunkEnds(B, "evalThrew")
  ELSE IF B.thunk.todo = <<>>
  THEN thunkEnds([B EXCEPT !.isFirstLoad = FALSE], "evaluated")
  ELSE LET id == Head(B.thunk.todo) IN
       IF id \notin DOMAIN B.modules THEN thunkEnds(B, "evalThrew")
       ELSE evaluate([B EXCEPT !.thunk.status = "running", !.thunk.todo = Tail(@),
                               !.evalCaller = "thunk", !.thrown = NoError], id)

\* The modules forEach of a later thunk meets with a dirty hot context.
Dirty(B) == {id \in DOMAIN B.modules \ B.thunk.visited :
               B.modules[id].hot.hmrConfig /\ B.modules[id].hot.dirty}

\* The sweep that stops at an EvaluationResetError as at any other error.
thunkLater_Rethrows(B, id) ==
  IF B.thunk.status = "running" /\ B.thrown # NoError
  THEN thunkEnds(B, "evalThrew")
  ELSE IF id \notin Dirty(B) THEN thunkEnds(B, "evaluated")
  ELSE evaluate([B EXCEPT !.thunk.status = "running", !.thunk.visited = @ \cup {id},
                          !.evalCaller = "thunk", !.thrown = NoError], id)

\* The thunk of a later load: the dirty modules; Object.values of the Map of
\* modules is empty, so that no invalidated module is looked at.
thunkLater(B, id) ==
  IF B.thunk.status = "running" /\ B.thrown \notin {NoError, "EvaluationResetError"}
  THEN thunkEnds(B, "evalThrew")
  ELSE IF id \notin Dirty(B) THEN thunkEnds(B, "evaluated")
  ELSE evaluate([B EXCEPT !.thunk.status = "running", !.thunk.visited = @ \cup {id},
                          !.evalCaller = "thunk", !.thrown = NoError], id)

BundlerIndexContents == {"accept", "accept2", "impA", "invalidate"}
BundlerAContents == {"plain", "accept", "bad", "boom"}
PackageJsonContents == {"pkg", "pkgSwap", "pkgV2"}

MaxCompiles == 2

CallCompile(files) ==
  /\ Quiet
  /\ pass.pc = "idle"
  /\ envCalls < MaxCompiles
  /\ Apply(compileStart(Bundle, files))
  /\ fs' = [p \in DOMAIN fs |-> IF p \in DOMAIN files THEN files[p] ELSE fs[p]]
  /\ envCalls' = envCalls + 1
  /\ UNCHANGED Config

CompileDeps ==
  /\ Quiet
  /\ pass.pc = "changed"
  /\ waits["compile"].status \in {"done", "failed"}
  /\ Apply(compileDeps(Bundle))
  /\ UNCHANGED <<fs, Config, envCalls>>

CompileNext ==
  /\ Quiet
  /\ pass.pc = "transpiling"
  /\ waits["compile"].status \in {"done", "failed"}
  /\ Apply(compileNext(Bundle))
  /\ UNCHANGED <<fs, Config, envCalls>>

\* The caller runs the thunk it got; a step goes from one evaluate() to the next.
ThunkStep ==
  /\ stack = <<>>
  /\ evalCaller = "none"
  /\ pass.pc = "idle"
  /\ thunk.status \in {"ready", "running"}
  /\ \/ thunk.kind = "first" /\ Apply(finishCall(thunkFirst(Bundle)))
     \/ /\ thunk.kind = "incremental"
        /\ \E id \in Ids :
             /\ Dirty(Bundle) # {} => id \in Dirty(Bundle)
             /\ Dirty(Bundle) = {} => id = IndexJs
             /\ Apply(finishCall(thunkLater(Bundle, id)))
  /\ UNCHANGED <<fs, Config, envCalls>>

NoImport == [status |-> "none", importer |-> <<>>, specifier |-> <<>>, value |-> {}]

\* No function of subgraphs.ts has been called on its own.
PathIdle ==
  /\ pathIn = <<>>
  /\ sgIn = NO_SUBGRAPH
  /\ pathOp = "none"
  /\ parsedOut = ParseThrown
  /\ encodedOut = <<>>
  /\ strippedOut = <<>>

DebouncerIdle ==
  /\ now = 0
  /\ timers = {}
  /\ calls = <<>>
  /\ runs = <<>>
  /\ cleared = {}
  /\ compiling = {}

EntryIdle == entrySubgraph = NO_SUBGRAPH /\ entryOut = <<>>

AsideIdle == PathIdle /\ DebouncerIdle /\ EntryIdle

\* registerRuntime and _addPrecompiledNodeModuleToModuleGraph: an untagged module
\* whose id is its path; with subgraphs the path is marked shared.
RegisteredModules ==
  (RuntimePath :> NewModule(RuntimePath, "plain", FALSE, NO_SUBGRAPH))
    @@ (CoreJs :> NewModule(CoreJs, "plain", TRUE, NO_SUBGRAPH))

\* The bundler after initPreset and loadNodeModules: the react preset has
\* registered its runtime, the precompiled file of core-js is in the module
\* graph; with subgraphs enabled both paths and the package core-js are shared.
\* new Bundler(), but for the concurrency of its queue.
InitState ==
  /\ promises = <<>>
  /\ waiting = <<>>
  /\ running = 0
  /\ queued = <<>>
  /\ admitted = <<>>
  /\ shouldKeepResults \in BOOLEAN
  /\ task = [id \in Ids |-> Idle]
  /\ orphans = {}
  /\ waits = [w \in {"compile", "import", "caller"} |-> NotWaiting]
  /\ stack = <<>>
  /\ exc = NoError
  /\ evalCaller = "none"
  /\ dyn = NoImport
  /\ hasHMR = FALSE
  /\ evals = ZeroPerId
  /\ execs = ZeroPerId
  /\ thrown = NoError
  /\ seen = {}
  /\ isResourceSubgraphFork = <<>>
  /\ subgraphImportConditions \in BOOLEAN
  /\ sharedPackages = IF subgraphImportConditions THEN {<<"core-js">>} ELSE {}
  /\ reloadRequested = FALSE
  /\ tmInvoked = {}
  /\ joined = {}
  /\ inflight = ZeroPerId
  /\ compileCalls = ZeroPerId
  /\ compileRuns = ZeroPerId
  /\ compileReturns = ZeroPerId
  /\ trCalls = ZeroPerId
  /\ lastMarked = [id \in Ids |-> FALSE]
  /\ forkHistory = {}
  /\ isFirstLoad = TRUE
  /\ parsedPackageJSON = NoPackageJSON
  /\ previousDepString = NullDepString
  /\ pass = NoPass
  /\ thunk = NoThunk
  /\ loads = 0
  /\ entrySteps = 0

\* The files of the shared package core-js are precompiled and in the graph.
InitFields ==
  /\ InitState
  /\ sharedModulePaths = IF subgraphImportConditions THEN DOMAIN RegisteredModules ELSE {}

InitBundler ==
  /\ concurrency = TRANSFORM_CONCURRENCY
  /\ InitFields

Init ==
  /\ InitBundler
  /\ AsideIdle
  /\ modules = RegisteredModules
  /\ \E ci \in IndexContents, ca \in AContents :
       fs = [p \in FsPaths |->
               CASE p = IndexJs -> ci [] p = AJs -> ca [] p = PackageJson -> "pkg"
                 [] OTHER -> "plain"]
  /\ envCalls = 0

Next ==
  \/ \E id \in Ids : TaskRead(id)
  \/ \E id \in Ids : CompileTransformed(id)
  \/ \E id \in Ids : \E d \in task[id].pend : CompileDep(id, d)
  \/ \E o \in orphans : OrphanDep(o[1], o[2])
  \/ \E id \in Ids : \E d \in (IF id \in DOMAIN modules THEN modules[id].dependencies ELSE {}) :
       TaskFanout(id, d)
  \/ \E id \in UserIds : CallTransformModule(id)
  \/ \E id \in DOMAIN modules : CallResetCompilation(id)
  \/ \E p \in UserPaths : \E c \in Contents(p) : WriteFile(p, c)
  \/ \E id \in DOMAIN modules : CompileAgain(id)

Spec == Init /\ [][Next]_vars

(***************************************************************************)
(* The pipeline asked for modules of every kind: scripts, and a file the   *)
(* preset maps to no transformer.                                          *)
(***************************************************************************)
NextThrows ==
  \/ \E id \in Ids : TaskRead(id)
  \/ \E id \in Ids : CompileTransformed(id)
  \/ \E id \in Ids : \E d \in task[id].pend : CompileDep(id, d)
  \/ \E o \in orphans : OrphanDep(o[1], o[2])
  \/ \E id \in Ids : \E d \in (IF id \in DOMAIN modules THEN modules[id].dependencies ELSE {}) :
       TaskFanout(id, d)
  \/ \E id \in UserIds \cup {PackageJson} : CallTransformModule(id)
  \/ \E id \in DOMAIN modules : CallResetCompilation(id)

SpecThrows == Init /\ [][NextThrows]_vars

(***************************************************************************)
(* Evaluation of a compiled graph without subgraphs: cyclic imports,       *)
(* dynamic imports, failing modules.                                       *)
(***************************************************************************)
EvalIndexContents == {"cycA", "dynA", "dynNope"}
EvalAContents == {"cycB", "plain", "bad", "boom", "throws"}

InitEval ==
  /\ InitBundler
  /\ AsideIdle
  /\ modules = RegisteredModules
  /\ ~subgraphImportConditions
  /\ \E ci \in EvalIndexContents, ca \in EvalAContents :
       fs = [p \in FsPaths |->
               CASE p = IndexJs -> ci [] p = AJs -> ca [] p = PackageJson -> "pkg"
                 [] OTHER -> "plain"]
  /\ envCalls = 0

NextEval ==
  \/ \E id \in Ids : TaskRead(id)
  \/ \E id \in Ids : CompileTransformed(id)
  \/ \E id \in Ids : \E d \in task[id].pend : CompileDep(id, d)
  \/ \E id \in Ids : \E d \in (IF id \in DOMAIN modules THEN modules[id].dependencies ELSE {}) :
       TaskFanout(id, d)
  \/ \E id \in UserIds : CallTransformModule(id)
  \/ \E id \in UserIds : CallEvaluate(id)
  \/ EvalStep
  \/ DynAdd
  \/ DynRequire

\* Tasks and awaits that can go on do go on, as does the evaluation.  Nothing
\* obliges the callers to call.
Scheduled ==
  \/ \E id \in Ids : TaskRead(id)
  \/ \E id \in Ids : CompileTransformed(id)
  \/ \E id \in Ids : \E d \in task[id].pend : CompileDep(id, d)
  \/ \E id \in Ids : \E d \in (IF id \in DOMAIN modules THEN modules[id].dependencies ELSE {}) :
       TaskFanout(id, d)
  \/ EvalStep
  \/ DynAdd
  \/ DynRequire

\* The evaluation is synchronous: begun, it runs to its end.
SpecEval == InitEval /\ [][NextEval]_vars /\ WF_vars(EvalStep)

SpecEvalAsync == InitEval /\ [][NextEval]_vars /\ WF_vars(Scheduled)

(***************************************************************************)
(* Modules that are transformed, evaluated (some accept hot updates) and   *)
(* reset.                                                                  *)
(***************************************************************************)
ResetIndexContents == {"accept", "impA", "bad"}
ResetAContents == {"plain", "accept", "boom"}

InitReset ==
  /\ InitBundler
  /\ AsideIdle
  /\ modules = RegisteredModules
  /\ ~subgraphImportConditions
  /\ \E ci \in ResetIndexContents, ca \in ResetAContents :
       fs = [p \in FsPaths |->
               CASE p = IndexJs -> ci [] p = AJs -> ca [] p = PackageJson -> "pkg"
                 [] OTHER -> "plain"]
  /\ envCalls = 0

NextReset ==
  \/ \E id \in Ids : TaskRead(id)
  \/ \E id \in Ids : CompileTransformed(id)
  \/ \E id \in Ids : \E d \in task[id].pend : CompileDep(id, d)
  \/ \E id \in Ids : \E d \in (IF id \in DOMAIN modules THEN modules[id].dependencies ELSE {}) :
       TaskFanout(id, d)
  \/ \E id \in UserIds : CallTransformModule(id)
  \/ \E id \in UserIds : CallEvaluate(id)
  \/ EvalStep
  \/ \E id \in DOMAIN modules : CallResetCompilation(id)

SpecReset == InitReset /\ [][NextReset]_vars

(***************************************************************************)
(* The bundler over its own queue, and over queues that admit few tasks    *)
(* at a time.                                                              *)
(***************************************************************************)
MaxConcurrency == 2

InitQueue ==
  /\ concurrency \in (1..MaxConcurrency) \cup {TRANSFORM_CONCURRENCY}
  /\ InitFields
  /\ AsideIdle
  /\ modules = RegisteredModules
  /\ \E ci \in IndexContents, ca \in AContents :
       fs = [p \in FsPaths |->
               CASE p = IndexJs -> ci [] p = AJs -> ca [] p = PackageJson -> "pkg"
                 [] OTHER -> "plain"]
  /\ envCalls = 0

SpecQueue == InitQueue /\ [][Next]_vars

(***************************************************************************)
(* moduleFinishedPromise called on a graph, cyclic or not, that is being   *)
(* transformed and reset.                                                  *)
(***************************************************************************)
FinishedIndexContents == {"cycA", "impA", "impTwo"}
FinishedAContents == {"cycB", "plain", "bad"}

InitFinished ==
  /\ InitBundler
  /\ AsideIdle
  /\ modules = RegisteredModules
  /\ ~subgraphImportConditions
  /\ \E ci \in FinishedIndexContents, ca \in FinishedAContents :
       fs = [p \in FsPaths |->
               CASE p = IndexJs -> ci [] p = AJs -> ca [] p = PackageJson -> "pkg"
                 [] OTHER -> "plain"]
  /\ envCalls = 0

NextFinished ==
  \/ \E id \in Ids : TaskRead(id)
  \/ \E id \in Ids : CompileTransformed(id)
  \/ \E id \in Ids : \E d \in task[id].pend : CompileDep(id, d)
  \/ \E o \in orphans : OrphanDep(o[1], o[2])
  \/ \E id \in Ids : \E d \in (IF id \in DOMAIN modules THEN modules[id].dependencies ELSE {}) :
       TaskFanout(id, d)
  \/ \E id \in UserIds : CallTransformModule(id)
  \/ \E id \in UserIds : CallModuleFinishedPromise(id)
  \/ \E id \in DOMAIN modules : CallResetCompilation(id)

SpecFinished == InitFinished /\ [][NextFinished]_vars

(***************************************************************************)
(* toSubGraphPath and parseSubgraphPath applied to a string: each call     *)
(* takes its arguments from the inputs or from what the other returned.    *)
(***************************************************************************)
MaxPathLen == 4

PathTokens == {"(", ")", "client", "server", "/a.js"}

PathStrings == UNION {[1..n -> PathTokens] : n \in 0..MaxPathLen}

SubgraphIds == {SUBGRAPH_VALUES[i] : i \in 1..Len(SUBGRAPH_VALUES)}

InitPath ==
  /\ InitBundler
  /\ modules = RegisteredModules
  /\ fs = [p \in FsPaths |-> "plain"]
  /\ envCalls = 0
  /\ ~subgraphImportConditions
  /\ shouldKeepResults
  /\ DebouncerIdle
  /\ EntryIdle
  /\ pathIn \in PathStrings
  /\ sgIn \in SubgraphIds \cup {NO_SUBGRAPH}
  /\ pathOp = "none"
  /\ parsedOut = ParseThrown
  /\ encodedOut = <<>>
  /\ strippedOut = <<>>

\* parseSubgraphPath(pathIn, strict)
ParseInput(strict) ==
  /\ pathOp = "none"
  /\ parsedOut' = parseSubgraphPath(pathIn, strict)
  /\ pathOp' = IF strict THEN "parsed-strict" ELSE "parsed"
  /\ UNCHANGED <<pathIn, sgIn, encodedOut, strippedOut, debouncerVars, entryVars, BundlerVars>>

\* toSubGraphPath(parsed.resourcePath, parsed.subgraphId)
EncodeParsed ==
  /\ pathOp = "parsed"
  /\ parsedOut.ok
  /\ encodedOut' = toSubGraphPath(parsedOut.resourcePath, parsedOut.subgraphId)
  /\ pathOp' = "parsed-encoded"
  /\ UNCHANGED <<pathIn, sgIn, parsedOut, strippedOut, debouncerVars, entryVars, BundlerVars>>

\* toSubGraphPath(pathIn, sgIn)
EncodeInput ==
  /\ pathOp = "none"
  /\ encodedOut' = toSubGraphPath(pathIn, sgIn)
  /\ pathOp' = "encoded"
  /\ UNCHANGED <<pathIn, sgIn, parsedOut, strippedOut, debouncerVars, entryVars, BundlerVars>>

\* parseSubgraphPath(encoded), strict by default
ParseEncoded ==
  /\ pathOp = "encoded"
  /\ encodedOut # THROWN
  /\ parsedOut' = parseSubgraphPath(encodedOut, TRUE)
  /\ pathOp' = "encoded-parsed"
  /\ UNCHANGED <<pathIn, sgIn, encodedOut, strippedOut, debouncerVars, entryVars, BundlerVars>>

\* unSubGraphPath(encoded), strict by default
StripEncoded ==
  /\ pathOp = "encoded"
  /\ encodedOut # THROWN
  /\ strippedOut' = unSubGraphPath(encodedOut, TRUE)
  /\ pathOp' = "encoded-stripped"
  /\ UNCHANGED <<pathIn, sgIn, parsedOut, encodedOut, debouncerVars, entryVars, BundlerVars>>

NextPath ==
  \/ \E strict \in BOOLEAN : ParseInput(strict)
  \/ EncodeParsed
  \/ EncodeInput
  \/ ParseEncoded
  \/ StripEncoded

SpecPath == InitPath /\ [][NextPath]_vars

(***************************************************************************)
(* Debouncer: one instance, called as SandpackInstance.handleParentMessage *)
(* calls it, over the timers of the event loop.                            *)
(***************************************************************************)
DEBOUNCE_DELAY == 50

\* The clock moves in steps of TickMs, at most MaxTicks times.
TickMs == 25
MaxTicks == 6
MaxDebounces == 3

\* debounce(action) at time t: the pending timer is cleared, a new one is set.
debounce_KeepsTimer(ts, action, t) ==
  ts \cup {[action |-> action, due |-> t + DEBOUNCE_DELAY]}

debounce(ts, action, t) ==
  {[action |-> action, due |-> t + DEBOUNCE_DELAY]}

InitDebounce ==
  /\ InitBundler
  /\ modules = RegisteredModules
  /\ fs = [p \in FsPaths |-> "plain"]
  /\ envCalls = 0
  /\ ~subgraphImportConditions
  /\ shouldKeepResults
  /\ PathIdle
  /\ DebouncerIdle
  /\ EntryIdle

\* A "compile" message arrives: compileDebouncer.debounce(() => handleCompile(message)).
Debounce ==
  /\ Len(calls) < MaxDebounces
  /\ calls' = Append(calls, now)
  /\ timers' = debounce(timers, Len(calls) + 1, now)
  /\ cleared' = cleared \cup {tm.action : tm \in timers}
  /\ UNCHANGED <<now, runs, compiling, pathVars, entryVars, BundlerVars>>

\* Time passes.
Tick ==
  /\ now < MaxTicks * TickMs
  /\ now' = now + TickMs
  /\ UNCHANGED <<timers, calls, runs, cleared, compiling, pathVars, entryVars, BundlerVars>>

\* The event loop runs a timer that is due; it may do so late.  The action is
\* handleCompile(message): it runs into bundler.compile(files), which replaces
\* the resolver cache and writes the files before its first await.
Fire(tm) ==
  /\ tm \in timers
  /\ now >= tm.due
  /\ timers' = timers \ {tm}
  /\ runs' = Append(runs, [action |-> tm.action, at |-> now])
  /\ compiling' = compiling \cup {tm.action}
  /\ UNCHANGED <<now, calls, cleared, pathVars, entryVars, BundlerVars>>

\* The promise of bundler.compile(files) settles: handleCompile sends "done" or
\* its catch logs the error.  The pass awaits the registry and the
\* transformers, so it ends at a time of its own.
HandleCompileDone(action) ==
  /\ action \in compiling
  /\ compiling' = compiling \ {action}
  /\ UNCHANGED <<now, timers, calls, runs, cleared, pathVars, entryVars, BundlerVars>>

NextDebounce ==
  \/ Debounce
  \/ Tick
  \/ \E tm \in timers : Fire(tm)
  \/ \E action \in compiling : HandleCompileDone(action)

SpecDebounce == InitDebounce /\ [][NextDebounce]_vars

(***************************************************************************)
(* Bundler.compile called again and again with the files of the sandbox.   *)
(***************************************************************************)
\* Before the first compile the filesystem holds what the preset registered.
InitCompile ==
  /\ InitBundler
  /\ AsideIdle
  /\ modules = (RuntimePath :> NewModule(RuntimePath, "plain", FALSE, NO_SUBGRAPH))
  /\ fs = [p \in FsPaths |-> IF p \in {RuntimePath, CoreJs} THEN "plain" ELSE NoFile]
  /\ envCalls = 0

NextCompile ==
  \/ \E id \in Ids : TaskRead(id)
  \/ \E id \in Ids : CompileTransformed(id)
  \/ \E id \in Ids : \E d \in task[id].pend : CompileDep(id, d)
  \/ \E id \in Ids : \E d \in (IF id \in DOMAIN modules THEN modules[id].dependencies ELSE {}) :
       TaskFanout(id, d)
  \/ \E ci \in BundlerIndexContents, ca \in BundlerAContents \cup {NoFile},
          cp \in PackageJsonContents :
       CallCompile(IF ca = NoFile THEN (IndexJs :> ci) @@ (PackageJson :> cp)
                   ELSE (IndexJs :> ci) @@ (AJs :> ca) @@ (PackageJson :> cp))
  \/ CompileDeps
  \/ CompileNext
  \/ ThunkStep
  \/ EvalStep

SpecCompile == InitCompile /\ [][NextCompile]_vars

(***************************************************************************)
(* compile() and its thunk over modules that accept hot updates, reset     *)
(* themselves while they run, or throw.                                    *)
(***************************************************************************)
SweepIndexContents == {"hotImpA", "impA", "invalidate"}
SweepAContents == {"accept", "plain", "invalidate", "throws"}

NextSweep ==
  \/ \E id \in Ids : TaskRead(id)
  \/ \E id \in Ids : CompileTransformed(id)
  \/ \E id \in Ids : \E d \in task[id].pend : CompileDep(id, d)
  \/ \E id \in Ids : \E d \in (IF id \in DOMAIN modules THEN modules[id].dependencies ELSE {}) :
       TaskFanout(id, d)
  \/ \E ci \in SweepIndexContents, ca \in SweepAContents :
       CallCompile((IndexJs :> ci) @@ (AJs :> ca) @@ (PackageJson :> "pkg"))
  \/ CompileDeps
  \/ CompileNext
  \/ ThunkStep
  \/ EvalStep

SpecSweep == InitCompile /\ [][NextSweep]_vars

(***************************************************************************)
(* compile() with a runtime whose code requires another module             *)
(***************************************************************************)
InitRuntime ==
  /\ InitBundler
  /\ AsideIdle
  /\ \E rc \in {"impCore", "impA"} :
       /\ modules = (RuntimePath :> NewModule(RuntimePath, rc, FALSE, NO_SUBGRAPH))
       /\ fs = [p \in FsPaths |->
                  IF p = RuntimePath THEN rc ELSE IF p = CoreJs THEN "plain" ELSE NoFile]
  /\ envCalls = 0

SpecRuntime == InitRuntime /\ [][NextCompile]_vars

(***************************************************************************)
(* resolveEntryPoint over the files and the /package.json it may meet       *)
(***************************************************************************)
EntryPaths == {IndexJs, AJs, SrcIndexJs, IndexClientJs}
EntryPackageJsons == {"pkg", "pkgMain", "pkgMainGone", "pkgSource", "pkgModule", "pkgTwice"}

InitEntry ==
  /\ InitBundler
  /\ AsideIdle
  /\ modules = RegisteredModules
  /\ \E present \in SUBSET EntryPaths, c \in EntryPackageJsons :
       fs = [p \in FsPaths \cup EntryPaths |->
               IF p = PackageJson THEN c
               ELSE IF p \in present \cup {CoreJs, RuntimePath} THEN "plain" ELSE NoFile]
  /\ envCalls = 0

\* processPackageJSON: /package.json is read and parsed.
ProcessPackageJSON ==
  /\ ~parsedPackageJSON.parsed
  /\ Apply(processPackageJSON(Bundle))
  /\ UNCHANGED <<fs, Config, envCalls>>

ResolveEntryPoint(subgraphId) ==
  /\ parsedPackageJSON.parsed
  /\ entrySubgraph' = subgraphId
  /\ entryOut' = resolveEntryPoint(Bundle, subgraphId)
  /\ UNCHANGED <<BundlerVars, pathVars, debouncerVars>>

NextEntry ==
  \/ ProcessPackageJSON
  \/ \E subgraphId \in activeSubgraphs : ResolveEntryPoint(subgraphId)

SpecEntry == InitEntry /\ [][NextEntry]_vars

(***************************************************************************)
(* compile(files) while a dynamic import of the evaluated code is being    *)
(* transformed: /index.js accepts hot updates and imports ./a dynamically. *)
(***************************************************************************)
ImportIndexContents == {"hotDynA", "hotImpA"}
ImportAContents == {"plain", "accept"}

NextImport ==
  \/ \E id \in Ids : TaskRead(id)
  \/ \E id \in Ids : CompileTransformed(id)
  \/ \E id \in Ids : \E d \in task[id].pend : CompileDep(id, d)
  \/ \E id \in Ids : \E d \in (IF id \in DOMAIN modules THEN modules[id].dependencies ELSE {}) :
       TaskFanout(id, d)
  \/ \E ci \in ImportIndexContents, ca \in ImportAContents :
       CallCompile((IndexJs :> ci) @@ (AJs :> ca) @@ (PackageJson :> "pkg"))
  \/ CompileDeps
  \/ CompileNext
  \/ ThunkStep
  \/ EvalStep
  \/ DynAdd
  \/ DynRequire

SpecImport == InitCompile /\ [][NextImport]_vars

(***************************************************************************)
(* Subgraphs enabled and the shared package core-js imported by a script.  *)
(* Its file is precompiled and was added to the graph by loadNodeModules,  *)
(* or it is a file the registry holds without precompiled code, which is   *)
(* not added and whose path is not marked shared.                          *)
(***************************************************************************)
SharedIndexContents == {"impCore", "impA"}

InitShared ==
  /\ concurrency = TRANSFORM_CONCURRENCY
  /\ InitState
  /\ AsideIdle
  /\ subgraphImportConditions
  /\ \E precompiled \in BOOLEAN :
       /\ modules = IF precompiled THEN RegisteredModules
                    ELSE (RuntimePath :> NewModule(RuntimePath, "plain", FALSE, NO_SUBGRAPH))
       /\ sharedModulePaths = DOMAIN modules
  /\ \E ci \in SharedIndexContents :
       fs = [p \in FsPaths |->
               CASE p = IndexJs -> ci [] p = PackageJson -> "pkg" [] OTHER -> "plain"]
  /\ envCalls = 0

NextShared ==
  \/ \E id \in Ids : TaskRead(id)
  \/ \E id \in Ids : CompileTransformed(id)
  \/ \E id \in Ids : \E d \in task[id].pend : CompileDep(id, d)
  \/ \E id \in Ids : \E d \in (IF id \in DOMAIN modules THEN modules[id].dependencies ELSE {}) :
       TaskFanout(id, d)
  \/ \E id \in UserIds : CallTransformModule(id)
  \/ \E id \in UserIds : CallModuleFinishedPromise(id)

SpecShared == InitShared /\ [][NextShared]_vars

(***************************************************************************)
(* Subgraphs enabled and a package that is not shared: the files of lib    *)
(* are precompiled on the CDN and their modules are created when first     *)
(* asked for.  The queue admits few tasks or fifty.                        *)
(***************************************************************************)
CdnAContents == {"cdnReqB", "cdnReqBNope"}
CdnBContents == {"cdnReqA", "cdnNope", "cdnLeaf"}

\* The files of lib as the client subgraph asks for them.
LibIds == {toSubGraphPath(p, "client") : p \in LibPaths}

InitCdn ==
  /\ concurrency \in (1..MaxConcurrency) \cup {TRANSFORM_CONCURRENCY}
  /\ InitFields
  /\ AsideIdle
  /\ subgraphImportConditions
  /\ modules = RegisteredModules
  /\ \E ca \in CdnAContents, cb \in CdnBContents :
       fs = [p \in FsPaths \cup LibPaths |->
               CASE p = LibAJs -> ca [] p = LibBJs -> cb
                 [] p = PackageJson -> "pkg" [] OTHER -> "plain"]
  /\ envCalls = 0

NextCdn ==
  \/ \E id \in Ids : TaskRead(id)
  \/ \E id \in Ids : \E d \in task[id].pend : PreDep(id, d)
  \/ \E id \in Ids : PreEnd(id)
  \/ \E o \in orphans : PreOrphan(o[1], o[2])
  \/ \E id \in Ids : \E d \in (IF id \in DOMAIN modules THEN modules[id].dependencies ELSE {}) :
       TaskFanout(id, d)
  \/ \E id \in LibIds : CallTransformModule(id)

SpecCdn == InitCdn /\ [][NextCdn]_vars

(***************************************************************************)
(* compile(files) with subgraphs, over files that hold the file of a       *)
(* shared module: the sandbox brings its own /node_modules/core-js/index.js *)
(***************************************************************************)
OverrideIndexContents == {"hotImpA", "accept"}
OverrideCoreContents == {"plain", "accept2"}

InitOverride == InitCompile /\ subgraphImportConditions

NextOverride ==
  \/ \E id \in Ids : TaskRead(id)
  \/ \E id \in Ids : CompileTransformed(id)
  \/ \E id \in Ids : \E d \in task[id].pend : CompileDep(id, d)
  \/ \E id \in Ids : \E d \in (IF id \in DOMAIN modules THEN modules[id].dependencies ELSE {}) :
       TaskFanout(id, d)
  \/ \E ci \in OverrideIndexContents, cc \in OverrideCoreContents :
       CallCompile((IndexJs :> ci) @@ (AJs :> "plain") @@ (PackageJson :> "pkg")
                     @@ (CoreJs :> cc))
  \/ CompileDeps
  \/ CompileNext
  \/ ThunkStep
  \/ EvalStep

SpecOverride == InitOverride /\ [][NextOverride]_vars

(***************************************************************************)
(* compile(files) over /package.json files that JSON.parse rejects or      *)
(* parses to null                                                          *)
(***************************************************************************)
PackageIndexContents == {"accept", "accept2"}
PackageContents == {"pkg", "pkgNull", "pkgBad"}

NextPackage ==
  \/ \E id \in Ids : TaskRead(id)
  \/ \E id \in Ids : CompileTransformed(id)
  \/ \E ci \in PackageIndexContents, cp \in PackageContents :
       CallCompile((IndexJs :> ci) @@ (PackageJson :> cp))
  \/ CompileDeps
  \/ CompileNext
  \/ ThunkStep
  \/ EvalStep

SpecPackage == InitCompile /\ [][NextPackage]_vars

(***************************************************************************)
(* Properties                                                              *)
(***************************************************************************)

\* C1: calls of transformModule(id) made before the first call's promise
\* settles start no second _transformModule for id: at most one execution per
\* id is in flight, and while it is, the queue holds its pending promise, which
\* is what every such caller is handed.
C1_SingleFlight ==
  \A id \in Ids :
    /\ inflight[id] <= 1
    /\ inflight[id] = 1 => (getItem(Bundle, id) /\ promises[id] = "pending")
    /\ inflight[id] = 0 => task[id].pc = "idle"

\* Two calls for one id, the second made while the first was pending.
C1_Witness ==
  \E id \in joined : inflight[id] = 1 /\ task[id].pc \in {"tr", "deps"}

\* C2: no module has both compiled and compilationError set.
C2_CompiledXorError ==
  \A id \in DOMAIN modules :
    ~(modules[id].compiled # NullCode /\ modules[id].compilationError # NoError)

\* C3: a call of compile() on a module that is compiled, or has a compilation
\* error, invokes no transformer and leaves compiled, compilationError,
\* dependencies, dependencyMap and the fork records as they were.
C3_CompileIsNoOp ==
  [][\A id \in DOMAIN modules :
       (/\ compileCalls'[id] = compileCalls[id] + 1
        /\ modules[id].compiled # NullCode \/ modules[id].compilationError # NoError)
       => /\ trCalls' = trCalls
          /\ modules'[id].compiled = modules[id].compiled
          /\ modules'[id].compilationError = modules[id].compilationError
          /\ modules'[id].dependencies = modules[id].dependencies
          /\ modules'[id].dependencyMap = modules[id].dependencyMap
          /\ isResourceSubgraphFork' = isResourceSubgraphFork]_vars

\* compile() has been called on a compiled module, and on a failed one.
C3_Witness ==
  /\ \E id \in DOMAIN modules :
       compileCalls[id] > compileRuns[id] /\ modules[id].compiled # NullCode
  /\ \E id \in DOMAIN modules :
       /\ compileCalls[id] > compileRuns[id]
       /\ modules[id].compiled = NullCode /\ modules[id].compilationError # NoError

Specifiers == {<<"./a">>, <<"./index">>, <<"core-js">>, <<"./nope">>} \cup Ids

\* C7: with subgraphs, a specifier whose resolved path is marked shared resolves
\* to that path, untagged, whichever subgraph asks, and no two modules have
\* that path; without subgraphs, resolveAsync returns no tagged id, no key of
\* modules is tagged, and every module is keyed by its path.
C7_SharedModules ==
  /\ hasSubgraphs =>
       /\ \A raw \in Specifiers : \A s \in activeSubgraphs :
            LET parsed == parseSubgraphPath(raw, FALSE)
                resolved == Resolver(parsed.resourcePath)
            IN (parsed.ok /\ resolved \in sharedModulePaths)
                 => resolveAsync(raw, s) = resolved
       /\ \A id1 \in DOMAIN modules : \A id2 \in DOMAIN modules :
            (/\ modules[id1].filepath = modules[id2].filepath
             /\ modules[id1].filepath \in sharedModulePaths) => id1 = id2
  /\ ~hasSubgraphs =>
       /\ \A raw \in Specifiers : ~StartsWithParen(resolveAsync(raw, NO_SUBGRAPH))
       /\ \A id \in DOMAIN modules : ~StartsWithParen(id) /\ modules[id].filepath = id

\* Modules of both subgraphs depend on the one module of a shared path.
C7_Witness ==
  /\ hasSubgraphs
  /\ \E id1 \in DOMAIN modules : \E id2 \in DOMAIN modules :
       /\ modules[id1].subgraphId = "client" /\ modules[id2].subgraphId = "server"
       /\ \E p \in sharedModulePaths :
            /\ p \in modules[id1].dependencies \cap modules[id2].dependencies
            /\ p \in DOMAIN modules
            /\ <<<<"_transformModule">> \o id1, p>> \in tmInvoked

\* The modules moduleFinishedPromise(id) visits: id and all it depends on.
RECURSIVE Closure(_, _)
Closure(S, n) ==
  LET T == S \cup UNION {IF x \in DOMAIN modules THEN modules[x].dependencies ELSE {} :
                           x \in S}
  IN IF n = 0 \/ T = S THEN S ELSE Closure(T, n - 1)

Subtree(id) == Closure({id}, Cardinality(Ids))

C4_Cyclic == fs[IndexJs] = "cycA" /\ fs[AJs] = "cycB"

C4_Once ==
  LET A == IndexJs
      B == AJs
  IN C4_Cyclic =>
       /\ execs[A] <= 1 /\ execs[B] <= 1
       /\ \A s \in seen :
            /\ (s[1] = B /\ s[2] = A /\ s[3] = "Started") => s[4] = {<<"early">>}
            /\ (s[1] = A /\ s[2] = B /\ s[3] = "Started") => s[4] = {}
       /\ (stack # <<>> /\ stack[1].id = A /\ B \in DOMAIN modules
           /\ modules[B].evaluation.status = "Finished")
            => <<B, A, "Started", {<<"early">>}>> \in seen
       /\ (stack = <<>> /\ A \in DOMAIN modules /\ B \in DOMAIN modules
           /\ modules[A].evaluation.status = "Finished")
            => /\ execs[A] = 1 /\ execs[B] = 1
               /\ modules[B].evaluation.status = "Finished"
               /\ modules[A].evaluation.exports = {<<"early">>, <<"late">>}
               /\ modules[B].evaluation.exports = {<<"b">>}
               /\ \/ <<B, A, "Started", {<<"early">>}>> \in seen
                  \/ <<A, B, "Started", {}>> \in seen

\* C4: with /index.js and /a.js importing each other, every evaluation that is
\* begun comes to its end and the code of each module is run at most once, and
\* exactly once when /index.js has been evaluated; the module entered second
\* requires the first while that is still running and gets the exports it has
\* made so far: in evaluate() of /index.js, /a.js gets {early}.
C4_CircularEvaluation ==
  /\ []C4_Once
  /\ ((C4_Cyclic /\ stack # <<>>) ~> (stack = <<>>))

C4_Witness ==
  /\ fs[IndexJs] = "cycA" /\ fs[AJs] = "cycB"
  /\ Quiet
  /\ IndexJs \in DOMAIN modules
  /\ modules[IndexJs].evaluation.status = "Finished"
  /\ execs[IndexJs] = 1 /\ execs[AJs] = 1
  /\ <<AJs, IndexJs, "Started", {<<"early">>}>> \in seen

\* The code on top of the stack is about to require a specifier that is not
\* in its module's dependencyMap.
C10_Absent ==
  /\ stack # <<>> /\ exc = NoError
  /\ Top(Bundle).pc <= Len(CodeOps(Top(Bundle).content))
  /\ CodeOps(Top(Bundle).content)[Top(Bundle).pc].op = "require"
  /\ \A e \in modules[Top(Bundle).id].dependencyMap :
       e[1] # CodeOps(Top(Bundle).content)[Top(Bundle).pc].arg

C10_ReturnsPromise ==
  C10_Absent =>
    LET f == Top(Bundle)
        specifier == CodeOps(f.content)[f.pc].arg
    IN /\ <<f.id, specifier, "promise", {<<"__esModule">>}>> \in seen'
       /\ dyn' = [status |-> "adding", importer |-> f.id,
                  specifier |-> specifier, value |-> {}]
       /\ execs' = execs /\ evals' = evals
       /\ Len(stack') = Len(stack)

C10_ResolvedLate ==
  dyn.status = "resolved" =>
    LET hits == {e \in modules[dyn.importer].dependencyMap : e[1] = dyn.specifier}
    IN /\ hits # {}
       /\ \A e \in hits :
            /\ <<<<"prepareDynamicImport">> \o dyn.importer, e[2]>> \in tmInvoked
            /\ \A x \in Subtree(e[2]) :
                 /\ x \in DOMAIN modules
                 /\ modules[x].compiled # NullCode
                 /\ modules[x].compilationError = NoError
            /\ dyn.value = {a \in {<<"x">>, <<"b">>} :
                              \E i \in 1..Len(CodeOps(modules[e[2]].compiled[1])) :
                                 CodeOps(modules[e[2]].compiled[1])[i] = Op("export", a)}

C10_Fails ==
  /\ dyn.status = "adding"
  /\ \/ resolveAsync(dyn.specifier, modules[dyn.importer].subgraphId) = THROWN
     \/ fs[AJs] \in {"bad", "boom"}

\* C10: a require() of a specifier that is not in the importer's dependencyMap
\* enters no module and returns a promise flagged __esModule; the promise is
\* resolved, with the exports of the target, only when the specifier is in the
\* dependencyMap, transformModule was called for the target and the target and
\* all it depends on are compiled without error; it is rejected when the
\* specifier does not resolve or the target fails to compile.
C10_DynamicImport ==
  /\ [][C10_ReturnsPromise]_vars
  /\ []C10_ResolvedLate
  /\ (C10_Fails ~> (dyn.status = "rejected"))

C10_Witness ==
  /\ dyn.status = "resolved"
  /\ fs[AJs] = "cycB"
  /\ dyn.value = {<<"b">>}
  /\ <<IndexJs, <<"./a">>, "promise", {<<"__esModule">>}>> \in seen

C5_HotModuleRecompiled ==
  (/\ pass.pc = "idle"
   /\ pass.hotChanged # {} /\ pass.coldChanged = {}
   /\ ~pass.sigChanged /\ ~pass.reloadBefore)
    => /\ pass.outcome \in {"incremental", "evaluated"}
       /\ ~reloadRequested
       /\ pass.outcome = "evaluated" =>
            \A id \in pass.hotChanged :
              LET m == modules[id]
                  content == fs[parseSubgraphPath(id, FALSE).resourcePath]
              IN /\ m.source = content
                 /\ m.compiled # NullCode
                 /\ m.compiled[1] = content
                 /\ m.evaluation.status = "Finished"
                 /\ m.evaluation.gen > pass.gens[id]
                 /\ m.evaluation.exports =
                      {a \in {<<"x">>, <<"y">>} :
                         \E i \in 1..Len(CodeOps(content)) :
                            CodeOps(content)[i] = Op("export", a)}

\* The registered runtimes in registration order, then the entry point of each
\* subgraph in the order of getSubgraphs.
C11_Order ==
  <<RuntimePath>> \o [i \in 1..Len(getSubgraphs) |->
                        resolveEntryPoint(Bundle, getSubgraphs[i])]

\* On first load an Evaluation of a runtime or entry module is made only when
\* all before it in that order are finished.
C11_InOrder ==
  isFirstLoad =>
    \A j \in 1..Len(C11_Order) :
      LET id == C11_Order[j] IN
      (id \in Ids /\ evals'[id] > evals[id])
        => \A i \in 1..(j - 1) :
             /\ C11_Order[i] \in DOMAIN modules
             /\ modules[C11_Order[i]].evaluation.status = "Finished"

\* The thunk of a first load that came to its end has evaluated them all.
C11_AllEvaluated ==
  (pass.firstLoad /\ pass.outcome = "evaluated") =>
    \A i \in 1..Len(C11_Order) :
      /\ C11_Order[i] \in DOMAIN modules
      /\ modules[C11_Order[i]].evaluation.status = "Finished"

\* C11: the thunk of a first load evaluates the registered runtimes in
\* registration order and then the entry modules in the order of getSubgraphs;
\* no entry module begins to be evaluated before every runtime is evaluated, and
\* none before the entry modules of the subgraphs before its own.
C11_RuntimesThenEntries ==
  /\ [][C11_InOrder]_vars
  /\ []C11_AllEvaluated

C11_Witness ==
  /\ isFirstLoad
  /\ subgraphImportConditions
  /\ thunk.status = "running"
  /\ stack # <<>>
  /\ stack[1].id = toSubGraphPath(IndexJs, "client")
  /\ modules[toSubGraphPath(IndexJs, "server")].evaluation.status = "Finished"
  /\ modules[RuntimePath].evaluation.status = "Finished"

\* The module holds the same Evaluation before and after the step.
C12_SameEvaluation(id) ==
  /\ id \in DOMAIN modules /\ id \in DOMAIN modules'
  /\ modules[id].evaluation.status # "none"
  /\ modules'[id].evaluation.status # "none"
  /\ modules'[id].evaluation.gen = modules[id].evaluation.gen

\* The code on top of the stack is at a require() that finds id in its
\* module's dependencyMap: the step calls getExports() on the Evaluation of id.
C12_Requires(id) ==
  /\ stack # <<>>
  /\ exc = NoError
  /\ LET f == stack[Len(stack)]
         ops == CodeOps(f.content)
     IN /\ f.pc <= Len(ops)
        /\ ops[f.pc].op = "require"
        /\ <<ops[f.pc].arg, id>> \in modules[f.id].dependencyMap

\* The status of one Evaluation moves forward only, its code is begun when it
\* is NotEvaluated and at no other time, and a failed one rethrows its error.
C12_Step ==
  \A id \in Ids :
    /\ C12_SameEvaluation(id) =>
         LET e == modules[id].evaluation
             n == modules'[id].evaluation
         IN /\ \/ n.status = e.status
               \/ e.status = "NotEvaluated" /\ n.status = "Started"
               \/ e.status = "Started" /\ n.status \in {"Finished", "Failed"}
            /\ execs'[id] # execs[id] =>
                 /\ e.status = "NotEvaluated"
                 /\ n.status = "Started"
                 /\ execs'[id] = execs[id] + 1
            /\ e.status = "Failed" =>
                 /\ n.error = e.error
                 /\ C12_Requires(id) => (exc' = e.error /\ stack' = stack)
    /\ (id \in DOMAIN modules /\ execs'[id] # execs[id] /\ ~C12_SameEvaluation(id)) =>
         /\ modules[id].evaluation.status = "none"
         /\ evals'[id] = evals[id] + 1
         /\ execs'[id] = execs[id] + 1

\* C12: the status of an Evaluation only moves NotEvaluated -> Started ->
\* Finished or Failed and stays Finished or Failed; the code of the module is
\* run at most once for one Evaluation; a getExports() on a Failed Evaluation
\* throws the stored error and runs nothing.
C12_EvaluationStatus ==
  /\ [][C12_Step]_vars
  /\ [](\A id \in Ids : execs[id] <= evals[id])

\* /a.js failed when it was evaluated by itself; /index.js, evaluated later,
\* requires it and gets the stored error thrown.
C12_Witness ==
  /\ thrown = "Error"
  /\ evals[AJs] = 1 /\ execs[AJs] = 1
  /\ evals[IndexJs] = 1
  /\ Len(stack) = 1 /\ stack[1].id = IndexJs
  /\ exc = "Error"
  /\ modules[AJs].evaluation.status = "Failed"
  /\ modules[AJs].evaluation.error = "Error"
  /\ modules[IndexJs].evaluation.status = "Started"

\* moduleFinishedPromise(id) resolves in this step.
C13_Resolves == waits["caller"].status # "done" /\ waits'["caller"].status = "done"

\* All that id reaches through dependencies is in the modules map, compiled
\* and without compilationError.
C13_Ready(id) ==
  \A x \in Subtree(id) :
    /\ x \in DOMAIN modules
    /\ modules[x].compiled # NullCode
    /\ modules[x].compilationError = NoError

\* C13: when moduleFinishedPromise(id) resolves, every module reachable from id
\* through dependencies is in the modules map with compiled set and no
\* compilationError.
C13_SubtreeReady ==
  [][C13_Resolves => C13_Ready(waits["caller"].root)']_vars

\* The runtimes and entry points compile() has awaited when it returns.
C14_Awaited ==
  {pass.entries[i] : i \in 1..Len(pass.entries)}
    \cup (IF pass.firstLoad THEN {RuntimePath} ELSE {})

\* The modules with a compilationError among those id reaches.
C14_FailedUnder(id) ==
  {x \in Subtree(id) : x \in DOMAIN modules /\ modules[x].compilationError # NoError}

\* compile() has come to its end: with a thunk only when nothing that an
\* awaited runtime or entry point reaches has a compilationError; when the
\* await of moduleFinishedPromise threw and a module under the awaited id has
\* a compilationError, with the compilationError of such a module.
C14_AtReturn ==
  /\ pass.outcome \in {"first", "incremental"} =>
       \A e \in C14_Awaited : C14_FailedUnder(e) = {}
  /\ (pass.outcome = "threw" /\ C14_FailedUnder(pass.cur) # {}) =>
       \E x \in C14_FailedUnder(pass.cur) : pass.error = modules[x].compilationError

\* C14: a compilationError of a module that an awaited entry point (or
\* runtime) reaches through dependencies makes moduleFinishedPromise throw that
\* compilationError, and Bundler.compile() awaiting it throws it too and
\* returns no thunk.
C14_ErrorPropagates ==
  [][(pass.pc = "transpiling" /\ pass'.pc = "idle") => C14_AtReturn']_vars

C14_Witness ==
  /\ pass.outcome = "threw"
  /\ pass.error = "BundlerError"
  /\ pass.cur = IndexJs
  /\ thunk.status = "none"
  /\ modules[IndexJs].compilationError = NoError
  /\ AJs \in modules[IndexJs].dependencies
  /\ modules[AJs].compilationError = "BundlerError"
  /\ modules[AJs].compiled # NullCode

\* compile(files) is called on a later load, the page not being reloaded.
C15_Call == envCalls' = envCalls + 1 /\ ~isFirstLoad /\ ~reloadRequested

\* The call returns a no-op thunk at once: no module is reset, nothing is
\* queued, 'transpiling' is not reached, no reload is asked for.
C15_ShortCircuits ==
  /\ pass'.pc = "idle" /\ pass'.outcome = "noop"
  /\ thunk'.status = "none"
  /\ modules' = modules
  /\ promises' = promises /\ waiting' = waiting /\ task' = task
  /\ tmInvoked' = tmInvoked
  /\ reloadRequested' = reloadRequested

\* C15 as stated: a compile(files) on a later load short-circuits exactly when
\* no incoming file differs from what is stored for its path, a path not
\* stored yet being a difference.
C15_ShortCircuitIffNoDifference ==
  [][C15_Call => (C15_ShortCircuits <=> \A p \in DOMAIN fs : fs'[p] = fs[p])]_vars

\* C15: a compile(files) on a later load short-circuits exactly when no
\* incoming file whose path is stored differs from the stored content; a file
\* whose path is not stored yet is written and is no difference.
C15_ShortCircuitIffNoStoredDifference ==
  [][C15_Call => (C15_ShortCircuits <=>
                    \A p \in DOMAIN fs : fs[p] # NoFile => fs'[p] = fs[p])]_vars

\* A later compile(files) brought /a.js as a new file and nothing else new.
C15_Witness ==
  /\ ~pass.firstLoad
  /\ pass.pc = "idle" /\ pass.outcome = "noop"
  /\ pass.added = {AJs}
  /\ pass.changedFiles = {}
  /\ fs[AJs] # NoFile
  /\ ~reloadRequested
  /\ envCalls = 2


\* C16: a well-formed module id (a resource path not starting with "(",
\* alone or prefixed with (client) or (server)) parsed loosely and encoded
\* again is the same id; a resource path not starting with "(" encoded with
\* a subgraph id and parsed again gives back that path and that id.
C16_Untagged(p) == ~StartsWithParen(p)

C16_WellFormed(x) ==
  \/ C16_Untagged(x)
  \/ \E s \in SubgraphIds :
       /\ Len(x) >= 3
       /\ SubSeq(x, 1, 3) = <<"(", s, ")">>
       /\ C16_Untagged(SubSeq(x, 4, Len(x)))

C16_RoundTrips ==
  /\ (pathOp = "parsed" /\ C16_WellFormed(pathIn)) => parsedOut.ok
  /\ (pathOp = "parsed-encoded" /\ C16_WellFormed(pathIn)) => encodedOut = pathIn
  /\ (pathOp = "encoded" /\ C16_Untagged(pathIn)) => encodedOut # THROWN
  /\ (pathOp = "encoded-parsed" /\ C16_Untagged(pathIn) /\ sgIn \in SubgraphIds) =>
       parsedOut = [ok |-> TRUE, resourcePath |-> pathIn, subgraphId |-> sgIn]

C16_Witness ==
  /\ pathOp = "parsed-encoded"
  /\ StartsWithParen(pathIn)
  /\ Len(pathIn) > 3
  /\ C16_WellFormed(pathIn)
  /\ encodedOut = pathIn


\* C17: the tasks of the transformation queue that have started and have
\* not settled are never more than the queue's concurrency, which is 50
\* for the queue a Bundler constructs.
RECURSIVE C17_Sum(_, _)
C17_Sum(f, S) ==
  IF S = {} THEN 0
  ELSE LET x == CHOOSE y \in S : TRUE IN f[x] + C17_Sum(f, S \ {x})

C17_Started == C17_Sum(inflight, Ids)

C17_AtMostConcurrency ==
  /\ C17_Started <= concurrency
  /\ running = C17_Started
  /\ Cardinality({id \in Ids : task[id].pc # "idle"}) = C17_Started
  /\ concurrency = TRANSFORM_CONCURRENCY => C17_Started <= 50

C17_Witness ==
  /\ C17_Started = concurrency
  /\ waiting # <<>>


\* C18: the tasks put on the waiting list because the queue was full are
\* started in the order addEntry was called for them, one each time a
\* running task settles; no task starts ahead of a waiting one.
C18_InOrder == queued = admitted \o waiting

C18_Settles == \E n \in Ids : inflight'[n] < inflight[n]

C18_Starts(n) == inflight'[n] > inflight[n]

\* The waiting list of a step as it is once the step's addEntry calls are made.
C18_Line == waiting \o SubSeq(queued', Len(queued) + 1, Len(queued'))

C18_Step ==
  /\ \E k \in 0..Len(queued') : queued = SubSeq(queued', 1, k)
  /\ (C18_Line # <<>> /\ C18_Settles) =>
       /\ admitted' = Append(admitted, Head(C18_Line))
       /\ C18_Starts(Head(C18_Line))
  /\ waiting # <<>> =>
       \A n \in Ids : C18_Starts(n) => (n = Head(waiting) /\ C18_Settles)
  /\ admitted' # admitted => C18_Settles
  /\ waiting' = IF admitted' # admitted THEN Tail(C18_Line) ELSE C18_Line

C18_FirstInFirstOut == []C18_InOrder /\ [][C18_Step]_vars

C18_Witness ==
  /\ admitted # <<>>
  /\ waiting # <<>>
  /\ C18_InOrder


\* C19: an action given to debounce() is invoked only if no later
\* debounce() call came within the delay after it; it is invoked once, and
\* not before the delay has passed since it was given; an action whose
\* timer a later call cleared is never invoked.
C19_Invoked == {runs[i].action : i \in 1..Len(runs)}

C19_OnlyTheLastRuns ==
  /\ \A i \in 1..Len(runs) :
       LET a == runs[i].action IN
       /\ a \in 1..Len(calls)
       /\ runs[i].at >= calls[a] + DEBOUNCE_DELAY
       /\ \A b \in (a + 1)..Len(calls) : calls[b] >= calls[a] + DEBOUNCE_DELAY
       /\ \A j \in 1..Len(runs) : runs[j].action = a => j = i
  /\ cleared \cap C19_Invoked = {}
  /\ \A a \in 1..Len(calls) :
       (\E b \in (a + 1)..Len(calls) : calls[b] < calls[a] + DEBOUNCE_DELAY) => a \in cleared

C19_Witness ==
  /\ cleared # {}
  /\ \E i \in 1..Len(runs) : runs[i].action > 1 /\ runs[i].action - 1 \in cleared
  /\ Len(runs) >= 2


\* C20: when a transformer returns a BundlerError to Module.compile(), the
\* error is stored on the module and the transformers after it in the
\* module's list are not invoked.
C20_StoresError(id) ==
  /\ id \in DOMAIN modules
  /\ task[id].pc = "tr"
  /\ modules[id].compilationError = NoError
  /\ modules'[id].compilationError = "BundlerError"

C20_ErrorEndsTransformers ==
  [][\A id \in Ids : C20_StoresError(id) => trCalls'[id] = trCalls[id]]_vars


\* C21: an error thrown in Module.compile() (no transformer list for the
\* file, a transformer that throws, a declared dependency that does not
\* resolve) is caught: compile() returns, the error is the module's
\* compilationError and compiled stays null.
C21_Thrown == {"Error", "ModuleNotFoundError"}

\* The step in which compile() of id catches an error.
C21_Catches(id) ==
  /\ id \in DOMAIN modules'
  /\ modules'[id].compilationError \in C21_Thrown
  /\ compileReturns'[id] = compileReturns[id] + 1

\* The step of id's task in which something throws inside compile().
C21_Throws(id) ==
  /\ task'[id] # task[id]
  /\ \/ /\ task[id].pc = "start"
        /\ compileRuns'[id] = compileRuns[id] + 1
        /\ getTransformers(parseSubgraphPath(id, FALSE).resourcePath) = THROWN
     \/ /\ task[id].pc = "tr"
        /\ TransformOutcome(getTransformers(modules[id].filepath)[task[id].ti],
                            task[id].code[1], modules[id].subgraphId).kind = "throw"
     \/ /\ task[id].pc = "deps"
        /\ \A d \in task[id].pend : resolveAsync(d, modules[id].subgraphId) = THROWN

C21_Step ==
  \A id \in Ids :
    /\ C21_Throws(id) =>
         /\ C21_Catches(id)
         /\ modules'[id].compiled = NullCode
         /\ trCalls'[id] = trCalls[id]
         /\ task'[id].pc \notin {"begun", "tr", "deps"}
         /\ id \in DOMAIN promises' => promises'[id] # "rejected"
    /\ (id \in DOMAIN modules /\ id \in DOMAIN modules'
        /\ modules'[id].compilationError \in C21_Thrown
        /\ modules[id].compilationError \notin C21_Thrown) => C21_Catches(id)

C21_ErrorKept ==
  \A id \in DOMAIN modules :
    modules[id].compilationError \in C21_Thrown => modules[id].compiled = NullCode

C21_CompileNeverRejects == []C21_ErrorKept /\ [][C21_Step]_vars

C21_Witness ==
  /\ PackageJson \in DOMAIN modules
  /\ modules[PackageJson].compilationError = "Error"
  /\ compileReturns[PackageJson] = 1
  /\ \E id \in UserIds \cap DOMAIN modules :
       modules[id].compilationError = "ModuleNotFoundError"


\* C22 as stated: after resetCompilation(), whatever the module was,
\* compiled, compilationError and evaluation are null, and a hot module is
\* dirty with a transformation of its id asked for, any other module has
\* asked for a reload.
C22_Hot(id) == modules[id].hot.hmrConfig /\ modules[id].hot.isHot

C22_Enqueued(id) == <<<<"resetCompilation">> \o id, id>> \in tmInvoked'

C22_ResetFromAnyState ==
  [][\A id \in DOMAIN modules :
       CallResetCompilation(id) =>
         /\ modules'[id].compiled = NullCode
         /\ modules'[id].compilationError = NoError
         /\ modules'[id].evaluation = NoEvaluation
         /\ IF C22_Hot(id) THEN modules'[id].hot.dirty /\ C22_Enqueued(id)
            ELSE reloadRequested']_vars

\* C22 amended: resetCompilation() always leaves compiled and
\* compilationError null; a module without compiled code is left as it is
\* otherwise (no reload, no transformation); a module with compiled code
\* loses its evaluation, has a transformation of its id asked for, and is
\* marked dirty if hot, else a reload is requested.
C22_ResetOfCompiled ==
  [][\A id \in DOMAIN modules :
       CallResetCompilation(id) =>
         /\ modules'[id].compiled = NullCode
         /\ modules'[id].compilationError = NoError
         /\ IF modules[id].compiled = NullCode
            THEN /\ modules' = [modules EXCEPT ![id].compilationError = NoError]
                 /\ reloadRequested' = reloadRequested
                 /\ tmInvoked' = tmInvoked
                 /\ promises' = promises
            ELSE /\ modules'[id].evaluation = NoEvaluation
                 /\ C22_Enqueued(id)
                 /\ IF C22_Hot(id)
                    THEN modules'[id].hot.dirty /\ reloadRequested' = reloadRequested
                    ELSE reloadRequested']_vars

C22_Witness ==
  /\ \E id \in DOMAIN modules :
       /\ modules[id].hot.dirty
       /\ modules[id].compiled = NullCode
       /\ modules[id].evaluation = NoEvaluation
       /\ <<<<"resetCompilation">> \o id, id>> \in tmInvoked
  /\ ~reloadRequested


\* C23: when the sweep of a later thunk over the dirty modules is over and
\* some module's HMR context is flagged invalidated, that module's
\* compilation is reset and compile(files) is started again; with no module
\* invalidated nothing is started.
C23_SweepEnds ==
  /\ thunk.kind = "incremental"
  /\ thunk.status \in {"ready", "running"}
  /\ thunk'.status = "none"
  /\ pass'.outcome = "evaluated"

C23_Invalidated ==
  {id \in DOMAIN modules' : modules'[id].hot.hmrConfig /\ modules'[id].hot.invalidated}

C24_ResetWhileRunning ==
  /\ stack # <<>>
  /\ exc = NoError
  /\ Top(Bundle).via
  /\ Top(Bundle).pc > Len(CodeOps(Top(Bundle).content))
  /\ modules[Top(Bundle).id].evaluation.status = "none"

\* The error in flight leaves the frame on top: it reaches the frame below
\* or, from the outermost frame, the caller of evaluate().
C24_Propagates ==
  IF Len(stack) > 1
  THEN exc' = "EvaluationResetError" /\ Len(stack') = Len(stack) - 1
  ELSE thrown' = "EvaluationResetError" /\ stack' = <<>>

C24_ThunkGoesOn ==
  /\ stack = <<>> /\ evalCaller = "none"
  /\ thunk.status = "running"
  /\ thunk' # thunk

C24_Step ==
  /\ C24_ResetWhileRunning => C24_Propagates
  /\ (stack # <<>> /\ exc = "EvaluationResetError") => C24_Propagates
  /\ (C24_ThunkGoesOn /\ thunk.kind = "incremental" /\ thrown = "EvaluationResetError") =>
       IF Dirty(Bundle) # {}
       THEN /\ thunk'.kind = "incremental"
            /\ \E id \in Dirty(Bundle) : thunk'.visited = thunk.visited \cup {id}
            /\ \E id \in Dirty(Bundle) : evals'[id] = evals[id] + 1
       ELSE thunk'.status = "none" /\ pass'.outcome = "evaluated"
  /\ (C24_ThunkGoesOn /\ thunk.kind = "incremental"
      /\ thrown \notin {NoError, "EvaluationResetError"}) =>
       /\ thunk'.status = "none" /\ pass'.outcome = "evalThrew"
       /\ evals' = evals
  /\ (C24_ThunkGoesOn /\ thunk.kind = "first" /\ thrown = "EvaluationResetError") =>
       /\ thunk'.status = "none" /\ pass'.outcome = "evalThrew"
       /\ evals' = evals /\ isFirstLoad' = isFirstLoad

C24_EvaluationReset == [][C24_Step]_vars

C24_Witness ==
  /\ ~pass.firstLoad
  /\ pass.outcome = "evaluated"
  /\ \E id1, id2 \in DOMAIN modules :
       /\ evals[id1] > pass.gens[id1]
       /\ evals[id2] > pass.gens[id2]
       /\ modules[id1].hot.invalidated
       /\ modules[id1].evaluation.status = "none"
       /\ modules[id2].evaluation.status = "Finished"


\* The ids of the changed files of a compile(files) on a later load, one per
\* active subgraph, that have a Module when compile(files) is called.
C25_Existing ==
  {toSubGraphPath(f, sg) : f \in {p \in DOMAIN fs : fs[p] # NoFile /\ fs'[p] # fs[p]},
                           sg \in activeSubgraphs} \cap DOMAIN modules

C25_Incremental == envCalls' = envCalls + 1 /\ ~isFirstLoad

\* compile(files) has reset every module of a changed file and called
\* transformModule for it, and has left the other modules as they were.
C25_ResetsChanged ==
  /\ \A id \in C25_Existing :
       /\ modules'[id].compiled = NullCode
       /\ modules'[id].compilationError = NoError
       /\ modules'[id].evaluation = NoEvaluation
       /\ <<<<"Bundler.compile">>, id>> \in tmInvoked'
  /\ \A id \in DOMAIN modules \ C25_Existing : modules'[id] = modules[id]
  /\ pass'.reset = C25_Existing

C25_Pending(id) == id \in DOMAIN promises /\ promises[id] = "pending"

\* `await Promise.all(promises)` of compile(files): the await begins over every
\* promise of a reset module that is pending, a promise leaves it only by
\* settling, and compile(files) goes on to /package.json, the runtimes and the
\* entry points only when none is left; a rejected promise ends compile(files).
C25_Settled ==
  /\ (C25_Incremental /\ hasHMR /\ C25_Existing # {}) =>
       /\ pass'.pc = "changed"
       /\ waits'["compile"].status \in {"all", "done", "failed"}
       /\ waits'["compile"].status = "all" =>
            waits'["compile"].visited = {id \in C25_Existing : C25_Pending(id)'}
       /\ waits'["compile"].status = "done" =>
            \A id \in C25_Existing : ~C25_Pending(id)'
  /\ (pass.pc = "changed" /\ waits["compile"].status = "all"
      /\ waits'["compile"].status \in {"all", "done"}) =>
       /\ \A id \in waits["compile"].visited : C25_Pending(id)
       /\ \A id \in waits["compile"].visited :
            IF waits'["compile"].status = "all" /\ id \in waits'["compile"].visited
            THEN C25_Pending(id)'
            ELSE ~C25_Pending(id)' /\ inflight'[id] = inflight[id] - 1
       /\ waits'["compile"].status = "all" =>
            waits'["compile"].visited \subseteq waits["compile"].visited
  /\ (pass.pc = "changed" /\ pass'.pc # "changed") =>
       /\ waits["compile"].status \in {"done", "failed"}
       /\ waits["compile"].status = "failed" => pass'.outcome = "threw"
       /\ loads = pass.loadsBefore
       /\ entrySteps = pass.entryStepsBefore
       /\ previousDepString = pass.sigBefore

\* C25 as stated: every compile(files) on a later load with a changed file
\* resets the modules of the changed files.
C25_EveryIncrementalResets ==
  [][C25_Incremental => C25_ResetsChanged]_vars

\* C25: a compile(files) on a later load with hot module replacement enabled
\* resets every existing module of a changed file, for every active subgraph,
\* and calls transformModule for it; the promises have settled before
\* /package.json is processed or an entry point resolved; the modules of the
\* other files are not reset.  Without hot module replacement the page is
\* reloaded and no module is reset.
C25_HotIncrementalResets ==
  [][/\ (C25_Incremental /\ hasHMR) => C25_ResetsChanged
     /\ (C25_Incremental /\ ~hasHMR) =>
          /\ modules' = modules /\ tmInvoked' = tmInvoked
          /\ C25_Existing # {} => reloadRequested'
     /\ C25_Settled]_vars

\* /index.js and /a.js were changed and reset; the transformation of /a.js was
\* awaited and /package.json has not been read again.
C25_Witness ==
  /\ ~pass.firstLoad
  /\ pass.reset = {IndexJs, AJs}
  /\ pass.pc = "transpiling"
  /\ compileRuns[AJs] = 2
  /\ task[AJs].pc = "idle"
  /\ modules[AJs].compiled # NullCode


\* The candidates in the order C26 gives them, those that are strings.
C26_Candidates ==
  SelectSeq(<<parsedPackageJSON.main, parsedPackageJSON.source, parsedPackageJSON.module>>
              \o (IF entrySubgraph # NO_SUBGRAPH
                  THEN <<<<"index", ".", entrySubgraph>>, <<"src/index", ".", entrySubgraph>>>>
                  ELSE <<>>)
              \o <<<<"index">>, <<"src/index">>>>,
            LAMBDA e : e \notin {Undefined, NotAString})

C26_Resolution(i) == resolveAsync(normalizeEntry(C26_Candidates[i]), entrySubgraph)

C26_Resolving == {i \in 1..Len(C26_Candidates) : C26_Resolution(i) # THROWN}

\* C26: resolveEntryPoint(subgraph) returns the resolution of the first of
\* main, source, module, the preset's default entry points with the subgraph
\* id appended, the preset's default entry points, that resolves, whatever
\* failed before it, and throws only when none of them resolves.
C26_FirstCandidateThatResolves ==
  entryOut # <<>> =>
    IF C26_Resolving = {} THEN entryOut = THROWN
    ELSE \E i \in C26_Resolving :
           /\ \A j \in C26_Resolving : i <= j
           /\ entryOut = C26_Resolution(i)

\* main does not resolve, /index.js exists, and the entry point is
\* /index.client.js of the subgraph client.
C26_Witness ==
  /\ entrySubgraph = "client"
  /\ parsedPackageJSON.main = <<"./", "gone">>
  /\ fs[IndexJs] # NoFile
  /\ entryOut = toSubGraphPath(IndexClientJs, "client")


\* The runtime and all it depends on are in the module graph, compiled.
C27_RuntimeReady ==
  \A x \in Subtree(RuntimePath) :
    /\ x \in DOMAIN modules
    /\ modules[x].compiled # NullCode
    /\ modules[x].compilationError = NoError

\* compile() resolves an entry point, or calls transformModule for a module
\* that is not a runtime.
C27_EntryBegins ==
  \/ entrySteps' > entrySteps
  \/ pass'.pc = "transpiling" /\ pass'.cur # pass.cur /\ pass'.cur # RuntimePath

C27_Step ==
  /\ (pass.pc = "changed" /\ pass'.pc = "transpiling" /\ pass'.firstLoad) =>
       /\ pass'.cur = RuntimePath
       /\ <<<<"Bundler.compile">>, RuntimePath>> \in tmInvoked'
       /\ entrySteps' = entrySteps
  /\ (pass.firstLoad /\ pass.pc # "idle" /\ C27_EntryBegins) =>
       /\ pass.pc = "transpiling"
       /\ pass.cur = RuntimePath => C27_RuntimeReady
       /\ <<<<"Bundler.compile">>, RuntimePath>> \in tmInvoked
  /\ (~pass'.firstLoad /\ pass'.pc # "idle") =>
       /\ pass'.cur # RuntimePath
       /\ \A i \in 1..Len(pass'.todo) : pass'.todo[i].kind # "runtime"
       /\ compileCalls'[RuntimePath] = compileCalls[RuntimePath]
       /\ inflight'[RuntimePath] = inflight[RuntimePath]

\* C27: on first load compile() calls transformModule for the registered
\* runtime first and resolves or transforms no entry point before the runtime
\* and all it depends on are compiled; a compile() that is not a first load
\* transforms no runtime.
C27_RuntimesBeforeEntries == [][C27_Step]_vars

\* The runtime requires /a.js; compile() waited for /a.js before it resolved
\* the entry point it now awaits.
C27_Witness ==
  /\ pass.firstLoad
  /\ pass.pc = "transpiling"
  /\ pass.cur = IndexJs
  /\ entrySteps = pass.entryStepsBefore + 1
  /\ modules[RuntimePath].dependencies = {AJs}
  /\ compileReturns[AJs] = 1
  /\ IndexJs \notin DOMAIN modules


\* Module.compile() of id has begun and has not returned.
C28_Compiling(id) == task[id].pc \in {"tr", "deps"}

\* C28: while Module.compile() of a module runs, the modules map has the
\* module under its id, and the module is not compiled: who looks the id up
\* then finds a module that exists and is not yet compiled.
C28_InMapWhileCompiling ==
  \A id \in Ids :
    C28_Compiling(id) =>
      /\ id \in DOMAIN modules
      /\ modules[id].filepath = parseSubgraphPath(id, FALSE).resourcePath
      /\ modules[id].subgraphId = parseSubgraphPath(id, FALSE).subgraphId
      /\ modules[id].compiled = NullCode

\* transformModule was called for a module while its compile() ran, and met
\* the module in the map and the pending entry of the queue.
C28_Witness ==
  \E id \in UserIds :
    /\ C28_Compiling(id)
    /\ id \in joined
    /\ id \in DOMAIN modules
    /\ modules[id].compiled = NullCode
    /\ promises[id] = "pending"


\* The module has an Evaluation.
C29_Has(id) == modules[id].evaluation.status # "none"

C29_Step ==
  \A id \in DOMAIN modules :
    /\ C29_Has(id) =>
         /\ evals'[id] = evals[id]
         /\ execs'[id] = execs[id]
         /\ modules'[id].disposeCalls = modules[id].disposeCalls
         /\ modules'[id].evaluation.gen \in {modules[id].evaluation.gen, 0}
         /\ modules'[id].evaluation.gen = 0 =>
              modules[id].compiled # NullCode /\ modules'[id].compiled = NullCode
         /\ (modules'[id].evaluation.gen # 0 /\ \A i \in DOMAIN stack : stack[i].id # id) =>
              modules'[id].hot = modules[id].hot
    /\ (C29_Has(id) /\ CallEvaluate(id)) =>
         /\ modules' = modules
         /\ stack' = stack
         /\ evals' = evals /\ execs' = execs
         /\ thrown' \in {NoError, modules[id].evaluation.error}
    /\ (~C29_Has(id) /\ C29_Has(id)') =>
         /\ evals'[id] = evals[id] + 1
         /\ modules'[id].evaluation.gen = evals'[id]
         /\ modules[id].hot.hmrConfig =>
              modules'[id].disposeCalls = modules[id].disposeCalls + 1

\* C29: evaluate() of a module that has an Evaluation returns it: no dispose
\* handler is called, the hot context is not cloned, no Evaluation is made and
\* no code is run; the Evaluation of a module gives way to another only after
\* resetCompilation() has set it to none, in a later evaluate().
C29_EvaluationKept == [][C29_Step]_vars

\* /index.js was evaluated, reset, compiled and evaluated again, and required
\* /a.js both times: /a.js kept its Evaluation and its code ran once.
C29_Witness ==
  /\ {IndexJs, AJs} \subseteq DOMAIN modules
  /\ modules[IndexJs].evaluation.status = "Finished"
  /\ modules[IndexJs].evaluation.gen = 2
  /\ modules[IndexJs].disposeCalls = 1
  /\ execs[IndexJs] = 2
  /\ AJs \in modules[IndexJs].dependencies
  /\ modules[AJs].evaluation.status = "Finished"
  /\ modules[AJs].evaluation.gen = 1
  /\ execs[AJs] = 1


\* The id given begins with "(" and has no ")".
C30_Malformed == StartsWithParen(pathIn) /\ IndexOf(pathIn, ")") = 0

\* The id given has a prefix whose tag is neither client nor server.
C30_UnknownTag ==
  /\ StartsWithParen(pathIn)
  /\ IndexOf(pathIn, ")") # 0
  /\ SubSeq(pathIn, 2, IndexOf(pathIn, ")") - 1) \notin {<<"client">>, <<"server">>}

C30_Parsed == pathOp \in {"parsed", "parsed-strict"}

\* C30 as stated: such an id fails in strict mode and gives the subgraph
\* 'none' in loose mode.
C30_LooseGivesNone ==
  (C30_Malformed \/ C30_UnknownTag) =>
     /\ pathOp = "parsed-strict" => parsedOut = ParseThrown
     /\ pathOp = "parsed" => (parsedOut.ok /\ parsedOut.subgraphId = NO_SUBGRAPH)

\* C30: an id whose prefix has no closing parenthesis or whose tag is not a
\* subgraph id fails in strict and in loose mode alike; loose mode gives the
\* subgraph 'none' only for an id without prefix, which fails in strict mode.
C30_BadPrefixFails ==
  /\ (C30_Parsed /\ (C30_Malformed \/ C30_UnknownTag)) => parsedOut = ParseThrown
  /\ (pathOp = "parsed" /\ ~StartsWithParen(pathIn)) =>
       parsedOut = [ok |-> TRUE, resourcePath |-> pathIn, subgraphId |-> NO_SUBGRAPH]
  /\ (pathOp = "parsed-strict" /\ ~StartsWithParen(pathIn)) => parsedOut = ParseThrown
  /\ (C30_Parsed /\ parsedOut # ParseThrown /\ StartsWithParen(pathIn)) =>
       parsedOut.subgraphId \in {"client", "server"}

\* Loose decoding of an id with an unknown tag has thrown.
C30_Witness ==
  /\ pathOp = "parsed"
  /\ C30_UnknownTag
  /\ Len(pathIn) > 2
  /\ parsedOut = ParseThrown

(***************************************************************************)
(* C31, C32: lazily created precompiled modules                            *)
(***************************************************************************)
\* The ids whose queue entry the tasks of S wait for, directly or through others.
RECURSIVE C31_Awaited(_, _)
C31_Awaited(S, n) ==
  LET T == S \cup UNION {task[i].await : i \in S} IN
  IF n = 0 \/ T = S THEN S ELSE C31_Awaited(T, n - 1)

\* C31: no transformation task awaits, directly or through the tasks it awaits,
\* its own pending queue entry (such a task, and every promise transformModule
\* returned for it, never settles).
C31_NoTaskAwaitsItself ==
  \A id \in Ids : id \notin C31_Awaited(task[id].await, Cardinality(Ids))

\* The names on the waiting list.
C32_Waiting == {waiting[i] : i \in 1..Len(waiting)}

\* The task of id has a slot and does nothing but wait for tasks without one.
C32_HoldsSlotForWaiting(id) ==
  /\ task[id].pc = "pre"
  /\ task[id].pend = {}
  /\ ~task[id].failed
  /\ task[id].await # {}
  /\ task[id].await \subseteq C32_Waiting

\* C32: the queue is never in a state in which every slot is held by a task that
\* awaits a task still waiting for a slot, stated for the chain without a cycle
\* (lib/a.js requires lib/b.js, which requires nothing).
C32_SlotsNeverAllAwaitWaiting ==
  ~ /\ fs[LibBJs] = "cdnLeaf"
    /\ running = concurrency
    /\ waiting # <<>>
    /\ \A id \in Ids : task[id].pc # "idle" => C32_HoldsSlotForWaiting(id)

(***************************************************************************)
(* C33: output of a superseded source                                      *)
(***************************************************************************)
\* The module of id holds code compiled from a source its file no longer has.
C33_Stale(id) ==
  /\ id \in DOMAIN modules
  /\ modules[id].compiled # NullCode
  /\ modules[id].compiled[1] # fs[modules[id].filepath]

\* The ids of the files the last compile(files) found changed.
C33_ChangedIds == {toSubGraphPath(f, sg) : f \in pass.changedFiles, sg \in activeSubgraphs}

\* C33: once an incremental compile(files) has written a changed file and
\* returned its thunk, no module of that file holds code compiled from the
\* content the file had before.
C33_NoSupersededOutput ==
  (pass.pc = "idle" /\ ~pass.firstLoad /\ pass.outcome \in {"incremental", "evaluated", "evalThrew"})
    => \A id \in C33_ChangedIds : ~C33_Stale(id)

(***************************************************************************)
(* C34: the dependencies of a recompiled module                            *)
(***************************************************************************)
\* The specifiers the transformers declare for the source the code of id was
\* compiled from.
C34_Declared(id) ==
  LET m == modules[id]
      transformers == getTransformers(m.filepath)
  IN UNION {TransformOutcome(transformers[i], m.compiled[1], m.subgraphId).deps :
              i \in 1..Len(transformers)}

C35_FanoutUsesRecordedIds ==
  \A e \in tmInvoked :
    e[1][1] = "_transformModule" => e[2] \in modules[Tail(e[1])].dependencies

\* C36: at most one Bundler.compile() pass is in progress at any time: a
\* compile request whose timer runs while an earlier compile() has not
\* returned does not start a second pass.
C36_OnePassAtATime == Cardinality(compiling) <= 1

\* The runtimes and the entry modules the thunk of this pass was given.
C37_Given == {RuntimePath} \cup {pass.entries[i] : i \in 1..Len(pass.entries)}

\* isFirstLoad is cleared by the thunk of a first load that is at its end:
\* nothing is left to evaluate, nothing was thrown, and every runtime and entry
\* module has a finished Evaluation.
C37_ClearedAtEnd ==
  (isFirstLoad /\ ~isFirstLoad') =>
    /\ thunk.kind = "first" /\ thunk.todo = <<>> /\ thrown = NoError
    /\ pass'.outcome = "evaluated"
    /\ \A id \in C37_Given :
         id \in DOMAIN modules /\ modules[id].evaluation.status = "Finished"

\* compile() called while isFirstLoad holds does not diff the files and does
\* not return early; when it comes to /package.json it reads it again, and it
\* goes on to transform the runtime unless the dependencies differ and the page
\* is reloaded.
C37_FirstLoadPath ==
  /\ (isFirstLoad /\ envCalls' = envCalls + 1) =>
       /\ pass'.firstLoad /\ pass'.changedFiles = {} /\ pass'.reset = {}
       /\ pass'.pc = "changed" /\ reloadRequested' = reloadRequested
  /\ (isFirstLoad /\ pass.pc = "changed" /\ pass'.pc # "changed") =>
       /\ parsedPackageJSON' = parsePackageJSON(fs[PackageJson])
       /\ \/ pass'.pc = "transpiling" /\ pass'.cur = RuntimePath
          \/ pass'.outcome = "noop" /\ reloadRequested'

\* C37: isFirstLoad goes from true to false only when the thunk of a first
\* load has evaluated every runtime and every entry module without throwing,
\* and never goes back to true; until then every compile() call takes the
\* first-load path.
C37_FirstLoadUntilEvaluated ==
  [][/\ C37_ClearedAtEnd
     /\ (~isFirstLoad => ~isFirstLoad')
     /\ C37_FirstLoadPath]_vars

\* A second compile() was still a first load, and its thunk came to its end.
C37_Witness ==
  /\ envCalls = 2
  /\ pass.firstLoad /\ pass.outcome = "evaluated"
  /\ ~isFirstLoad

\* The shared modules whose file the compile(files) of this step changes.
C38_SharedChanged ==
  {f \in DOMAIN fs : fs[f] # NoFile /\ fs'[f] # fs[f]}
    \cap sharedModulePaths \cap DOMAIN modules

\* C38: with subgraphs, a compile(files) on a later load that changes the
\* file of a shared module, stored under its untagged path, resets that module
\* and calls transformModule for it, as it does for the tagged modules of the
\* changed files.
C38_SharedAlsoReset ==
  [][(C25_Incremental /\ hasHMR /\ hasSubgraphs) =>
       \A id \in C38_SharedChanged :
         /\ modules'[id].compiled = NullCode
         /\ <<<<"Bundler.compile">>, id>> \in tmInvoked']_vars

\* compile() comes to processPackageJSON with a /package.json that JSON.parse
\* rejects, on a page that has not been told to reload.
C39_Unparsable ==
  /\ pass.pc = "changed" /\ pass'.pc # "changed"
  /\ waits["compile"].status # "failed"
  /\ isFirstLoad \/ PackageJson \in pass.changedFiles
  /\ JSONParseThrows(fs[PackageJson])
  /\ ~reloadRequested

C39_Raises == pass'.outcome = "threw" /\ pass'.error = "SyntaxError"

\* Nothing is raised by processPackageJSON, parsedPackageJSON is as it was, the
\* dependency signature is the previous one and no reload is asked for.
C39_Keeps ==
  /\ ~C39_Raises
  /\ parsedPackageJSON' = parsedPackageJSON
  /\ depString(parsedPackageJSON') = previousDepString
  /\ previousDepString' = previousDepString
  /\ reloadRequested' = reloadRequested

\* C39 as stated: the parse error is raised only when no /package.json was
\* parsed before, which is when no dependency signature was stored.
C39_RaisesOnlyBeforeFirstParse ==
  [][C39_Unparsable =>
       IF previousDepString = NullDepString THEN C39_Raises ELSE C39_Keeps]_vars

\* C39: processPackageJSON with an unparsable /package.json raises the parse
\* error when parsedPackageJSON holds no object, be it that nothing was parsed
\* before or that the last /package.json parsed to null; when it holds an
\* object nothing is raised, parsedPackageJSON stays, the dependency signature
\* equals the previous one and no reload is forced.
C39_RaisesWhileNoObject ==
  [][C39_Unparsable =>
       IF ~parsedPackageJSON.parsed THEN C39_Raises ELSE C39_Keeps]_vars

\* A later load whose changed /package.json could not be parsed went on to the
\* entry points with the earlier parse.
C39_Witness ==
  /\ JSONParseThrows(fs[PackageJson])
  /\ ~pass.firstLoad /\ PackageJson \in pass.changedFiles
  /\ pass.pc = "transpiling"
  /\ parsedPackageJSON = parsePackageJSON("pkg")
  /\ ~reloadRequested

\* C40: for every resource path p that does not begin with '(' and every
\* subgraph id s, unSubGraphPath(toSubGraphPath(p, s)) is p, the resource path
\* parseSubgraphPath returns for the same id.
C40_StripsTheTag ==
  (pathOp = "encoded-stripped" /\ ~StartsWithParen(pathIn) /\ sgIn \in SubgraphIds) =>
    /\ strippedOut = pathIn
    /\ strippedOut = parseSubgraphPath(encodedOut, TRUE).resourcePath

====
